---- MODULE Spec2Model ----
(***************************************************************************)
(* Model of the batch import engine of src/db_connector.py                 *)
(* (PostgresParquetImporter): several importer processes, each with its    *)
(* own PostgreSQL session, run import_all_parquet_files over the same      *)
(* discovered files.  The shared store is the trip table, the import_log   *)
(* ledger and the session-level advisory locks.                            *)
(***************************************************************************)
EXTENDS Integers, Sequences, FiniteSets, TLC

\* ---------------------------------------------------------------- bounds
\* Runs of import_all_parquet_files started in a behaviour, over all processes.
MaxRuns == 2
\* Injected faults (read error, load error, lost connection, crash) in a behaviour.
MaxFaults == 1
\* Rows of a batch taken through the normalizer and the loaders.
MaxBatchRows == 2

\* ------------------------------------------------------- the environment
\* The importer processes (each constructs its own importer and connection).
Procs == {"p1", "p2"}

\* sorted(data_dir.glob("**/*.parquet")): the discovered paths in lexicographic
\* order.  Two of them share a base name.
parquet_files ==
  << [dir |-> "2024", name |-> "a.parquet", rows |-> 3],
     [dir |-> "2025", name |-> "a.parquet", rows |-> 1],
     [dir |-> "2025", name |-> "b.parquet", rows |-> 1] >>

FileIds == 1 .. Len(parquet_files)
Names == { parquet_files[i].name : i \in FileIds }
NumRows(i) == parquet_files[i].rows
RowIds(i) == 1 .. NumRows(i)

\* batch_size values the importers may be constructed with (every caller in the
\* repository passes the same value to all its importers).
BatchSizes == {2, 3}

\* The values hashtext takes on the discovered names (hashtext returns an int4).
Keys == {1001, 1002}

\* The concurrent callers of run_import (requests to POST /imports/run).
Calls == {"c1", "c2"}

VARIABLES
  pc,              \* position of each process in import_all_parquet_files / import_parquet
  conn,            \* the process's connection is open and usable
  dry_run,         \* self.dry_run
  batch_size,      \* self.batch_size
  runs,            \* runs started so far, over all processes
  idx,             \* index i of file_path in parquet_files
  imported_count,  \* imported_count of the current run
  total_rows,      \* total_rows of the current import_parquet call
  read_pos,        \* rows of the file the batch iterator has yielded so far
  batch_len,       \* len(df) of the batch in hand
  batch_no,        \* batch_no of the current import_parquet call
  commits,         \* batch commits (line 207) of the current import_parquet call
  txn,             \* the open transaction's uncommitted write: "none", "rows", "log"
  result,          \* what import_parquet returns: "True", "False", or "exc" (it raises)
  table,           \* yellow_taxi_trips, committed: table[i][r] = copies of row r of file i
  import_log,      \* import_log, committed: set of [file_name, rows_imported]
  advisory_locks,  \* advisory_locks[k][p] = times session p holds key k
  faults,          \* faults injected so far
  outcome,         \* how the current/last import_parquet call went (section 4.4 state)
  writes,          \* rows this process committed to the trip table in its current run
  log_writes,      \* ledger entries this process committed in its current run
  base,            \* copies of each row of the current file when this call took the lock
  seen_holder,     \* the session holding the file's lock when this call checked the ledger
  all_logged,      \* every discovered file name was in the ledger when the run started
  hash_of,         \* the store's hashtext on the discovered file names
  discovered,      \* the files that data_dir.glob(pattern) finds: indices into parquet_files
  src_df,          \* a source batch: batch.to_pandas()
  df,              \* the batch after _normalize_chunk
  where_keeps,     \* this pandas build's DataFrame.where(cond, None) keeps NaN/NaT/<NA>
  copy_result,     \* rows stored by _copy_chunk(df), or "error"
  values_result,   \* rows stored by _values_chunk(df), or "error"
  stage,           \* how far the batch has been taken
  call_pc,         \* position of each run_import call
  args,            \* the call's arguments: data_dir, dry_run, method
  call_conn,       \* the connection that the call's importer opened (0: none yet)
  connections,     \* the store's open sessions
  connects,        \* psycopg2.connect calls so far
  file_idx,        \* the call's position in parquet_files
  imported,        \* the call's imported_count
  response,        \* what run_import returned to the call
  session_locks,   \* session_locks[k] = the sessions holding advisory lock k
  ledger,          \* import_log as the API reads it: [file_name, import_date, rows_imported]
  page_args,       \* limit and offset of the list_imports call
  page,            \* what list_imports returned
  imported_rows,   \* PostgresImporter.import_parquet: imported_rows
  imported_files,  \* PostgresImporter.import_all_parquet_files: imported_files
  fs,              \* the download directory: fs[path] = chunks in the file, or Absent
  CHECK_EXISTS,    \* NYCTaxiDataDownloader.CHECK_EXISTS
  dl_pc,           \* position of the downloader
  month,           \* download_all_available: m
  downloaded,      \* download_month: chunks of the body written so far
  returned,        \* what the last download_month call returned ("none" before any)
  requests_sent,   \* HTTP requests (HEAD and GET) sent so far
  parquet_glob,    \* the importer's last glob: paths scanned, and found: [path, size]
  pg_rows,         \* rows of yellow_taxi_trips that pass the WHERE clause, in order
  chunksize,       \* load_data_from_postgres: chunksize
  tr_offset,       \* load_data_from_postgres: offset
  chunk_index,     \* load_data_from_postgres: chunk_index
  df_chunk,        \* the chunk yielded and not yet saved
  cleaned_trips,   \* the yellow_taxi collection: set of documents
  yielded,         \* the documents of every chunk yielded so far
  inserted,        \* sum of the counts save_to_mongodb returned so far
  tr_pc            \* position of the transfer loop

vars == << pc, conn, dry_run, batch_size, runs, idx, imported_count, total_rows,
           read_pos, batch_len, batch_no, commits, txn, result, table, import_log, advisory_locks,
           faults, outcome, writes, log_writes, base, seen_holder, all_logged,
           hash_of, discovered, src_df, df, where_keeps, copy_result, values_result, stage,
           call_pc, args, call_conn, connections, connects, file_idx, imported,
           response, session_locks, ledger, page_args, page,
           imported_rows, imported_files,
           fs, CHECK_EXISTS, dl_pc, month, downloaded, returned, requests_sent, parquet_glob,
           pg_rows, chunksize, tr_offset, chunk_index, df_chunk, cleaned_trips, yielded,
           inserted, tr_pc >>

\* The variables of the batch pipeline (normalizer and loaders).
loader_vars == << src_df, df, where_keeps, copy_result, values_result, stage >>

\* The variables of the API layer (run_import, list_imports).
runner_vars == << call_pc, args, call_conn, connections, connects, file_idx, imported,
                  response, session_locks >>
reader_vars == << ledger, page_args, page >>
api_vars == << runner_vars, reader_vars >>

\* The variables of the other command-line tools of the repository.
downloader_vars == << fs, CHECK_EXISTS, dl_pc, month, downloaded, returned, requests_sent,
                      parquet_glob >>
transfer_vars == << pg_rows, chunksize, tr_offset, chunk_index, df_chunk, cleaned_trips,
                    yielded, inserted, tr_pc >>
tool_vars == << imported_rows, imported_files, downloader_vars, transfer_vars >>

\* hashtext(file_name): the advisory lock key of a file name.
hashtext(name) == hash_of[name]

NoProc == "none"
AllRowIds == UNION { RowIds(i) : i \in FileIds }
ZeroBase == [r \in AllRowIds |-> 0]

\* ------------------------------------------------------------ the store

\* file_name = file_path.name
file_name(i) == parquet_files[i].name

\* Mutant: the ledger is queried with the file's path, which no entry has.
is_file_imported_by_path(log, name) == FALSE

\* SELECT 1 FROM import_log WHERE file_name = %s; fetchone() is not None
is_file_imported(log, name) == \E e \in log : e.file_name = name

\* The session, if any, that holds advisory lock key k.
HoldersOf(locks, k) == { q \in Procs : locks[k][q] > 0 }

\* Mutant: ok = self.cur.fetchone(), a one-element row, which is always truthy.
pg_try_advisory_lock_row(locks, p, k) == TRUE

\* pg_try_advisory_lock(k) by session p: granted unless another session holds k.
pg_try_advisory_lock(locks, p, k) == HoldersOf(locks, k) \subseteq {p}

\* Mutant: only a real import records the lock; a dry run goes on without it.
LockGranted_real_only(locks, p, k) ==
  IF dry_run[p] THEN locks ELSE [locks EXCEPT ![k][p] = @ + 1]

\* The lock table after session p is granted key k once more.
LockGranted(locks, p, k) == [locks EXCEPT ![k][p] = @ + 1]

\* pg_advisory_unlock(k) by session p: one hold less, if it holds any.
pg_advisory_unlock(locks, p, k) ==
  [locks EXCEPT ![k][p] = IF @ > 0 THEN @ - 1 ELSE 0]

\* Mutant: the lock is not bound to the importer's session (it is taken on a
\* connection that outlives the importer's), so it survives the session's end.
SessionEnd_lock_survives(locks, p) == locks

\* A session ends (connection lost or closed): the server drops all its locks.
SessionEnd(locks, p) == [k \in Keys |-> [locks[k] EXCEPT ![p] = 0]]

\* Mutant: the lock is taken with pg_try_advisory_xact_lock, so the end of the
\* transaction releases it.
LocksAfterTxnEnd_xact(locks, p) == SessionEnd(locks, p)

\* pg_try_advisory_lock takes a session-level lock: the locks of session p after one
\* of its transactions ends (conn.commit() or conn.rollback()) are what they were.
LocksAfterTxnEnd(locks, p) == locks

\* import_log.file_name is the PRIMARY KEY: an entry for the name exists.
has_key(log, name) == \E e \in log : e.file_name = name

\* Mutant: import_log is created without the PRIMARY KEY.
unique_violation_no_key(log, name) == FALSE

\* INSERT INTO import_log of a name that has an entry raises (unique violation).
unique_violation(log, name) == has_key(log, name)

\* ------------------------------------------------------------ the reader

\* Mutant: pf.iter_batches() without the batch size yields the rest of the file.
NextBatchLen_whole_file(i, pos, bsize) == NumRows(i) - pos

\* pf.iter_batches(batch_size): rows of the next batch, given rows already yielded.
NextBatchLen(i, pos, bsize) ==
  IF NumRows(i) - pos < bsize THEN NumRows(i) - pos ELSE bsize

\* Mutant: total_rows = len(df).
RowsAfterBatch_overwrite(total, n) == n

\* total_rows += len(df)
RowsAfterBatch(total, n) == total + n

\* Mutant: no commit after the batch (one commit at the end of the file): the
\* rows of the batch are not committed when the loop goes on.
TableAfterCommit_deferred(tbl, i, lo, hi) == tbl

\* Mutant: a row that is already in the table is not inserted again.
TableAfterCommit_dedup(tbl, i, lo, hi) ==
  [tbl EXCEPT ![i] = [r \in AllRowIds |->
                        IF lo <= r /\ r <= hi /\ @[r] = 0 THEN 1 ELSE @[r]]]

\* The trip table after the batch of rows lo..hi of file i is loaded (COPY or
\* INSERT of every row of the batch) and committed.
TableAfterCommit(tbl, i, lo, hi) ==
  [tbl EXCEPT ![i] = [r \in AllRowIds |->
                        IF lo <= r /\ r <= hi THEN @[r] + 1 ELSE @[r]]]

\* Mutant: the unlock is on the success path only.
LocksAfterFinally_success_only(locks, p, k, alive, res) ==
  IF alive /\ res = "True"
    THEN LocksAfterTxnEnd(pg_advisory_unlock(locks, p, k), p)
    ELSE locks

\* finally: try: self._unlock_file(file_name) except Exception: pass
\* The locks after the finally of a call by session p on key k, its connection
\* being usable or not (`alive`) and its pending result `res`: on a lost connection
\* the unlock raises, which is swallowed.
LocksAfterFinally(locks, p, k, alive, res) ==
  IF alive THEN LocksAfterTxnEnd(pg_advisory_unlock(locks, p, k), p) ELSE locks

\* ------------------------------------------------------ the batch pipeline

\* The elements of a sequence.
Range(seq) == { seq[k] : k \in DOMAIN seq }

\* self.src_cols, abridged to one column of each kind (the code lists 19): a
\* numeric column stored as BIGINT, a timestamp, a numeric column stored as
\* DOUBLE PRECISION, and the text flag.
src_cols ==
  << "VendorID", "tpep_pickup_datetime", "passenger_count", "store_and_fwd_flag" >>

\* self.db_cols: the same columns as SQL identifiers, the CamelCase ones quoted.
db_cols ==
  << [ident |-> "VendorID", quoted |-> TRUE],
     [ident |-> "tpep_pickup_datetime", quoted |-> FALSE],
     [ident |-> "passenger_count", quoted |-> FALSE],
     [ident |-> "store_and_fwd_flag", quoted |-> FALSE] >>

\* CREATE TABLE yellow_taxi_trips: the columns the loaders write, with their types.
table_cols ==
  << [name |-> "VendorID", type |-> "BIGINT"],
     [name |-> "tpep_pickup_datetime", type |-> "TIMESTAMP"],
     [name |-> "passenger_count", type |-> "DOUBLE PRECISION"],
     [name |-> "store_and_fwd_flag", type |-> "TEXT"] >>

\* The columns _normalize_chunk parses as timestamps, as numbers, as text.
ts_cols == {"tpep_pickup_datetime"}
num_cols == {"VendorID", "passenger_count"}
flag_col == "store_and_fwd_flag"

\* The store folds an unquoted identifier to lower case and keeps a quoted one.
FoldCase(ident) == CASE ident = "VendorID" -> "vendorid" [] OTHER -> ident
ColumnOf(dc) == IF dc.quoted THEN dc.ident ELSE FoldCase(dc.ident)
TableColumnNames == { table_cols[k].name : k \in DOMAIN table_cols }
TypeOf(name) == (CHOOSE t \in Range(table_cols) : t.name = name).type

\* A cell of a batch: the kind of Python object and its text.
Cell(k, v) == [kind |-> k, v |-> v]
PyNone == Cell("None", "")
NaN == Cell("NaN", "")
NaT == Cell("NaT", "")
NA == Cell("NA", "")

\* pd.isnull
IsNull(x) == x.kind \in {"None", "NaN", "NaT", "NA"}

\* The text of an integer as a float (repr(float(n))), of a float as the integer
\* it rounds to.
FloatText(v) == CASE v = "1" -> "1.0" [] OTHER -> v
IntText(v) == CASE v = "1.0" -> "1" [] v = "2.0" -> "2" [] v = "0.75" -> "1" [] OTHER -> v

\* What the store's input functions accept for each type.
IntTexts == {"1", "2"}
FloatTexts == {"1.0", "2.0", "0.75", "NaN"}
TsTexts == {"2024-01-01 00:00:00"}

\* A source column outside self.src_cols.
ExtraCol == "cbd_congestion_fee"

\* The cells a source column may hold: a value of the column's kind, a token that
\* does not parse, a null, the empty text.
SrcCells(c) ==
  CASE c = "VendorID" -> { Cell("int", "1"), Cell("str", "N/A") }
    [] c = "tpep_pickup_datetime" ->
         { Cell("ts", "2024-01-01 00:00:00"), Cell("str", "N/A") }
    [] c = "passenger_count" -> { Cell("float", "2.0"), PyNone }
    [] c = "store_and_fwd_flag" -> { Cell("str", "Y"), Cell("str", ""), PyNone }
    [] OTHER -> { Cell("float", "0.75") }

\* The column lists of the source batches: the canonical list, one canonical
\* column missing, an extra column, another order.
SrcColumnLists ==
  { src_cols, << ExtraCol >> \o src_cols,
    [k \in DOMAIN src_cols |-> src_cols[Len(src_cols) + 1 - k]] }
  \cup { SelectSeq(src_cols, LAMBDA x : x # c) : c \in Range(src_cols) }

\* The rows over all source columns, and over the columns of one column list.
FullRows ==
  { [c \in Range(src_cols) \cup {ExtraCol} |->
       CASE c = "VendorID" -> a
         [] c = "tpep_pickup_datetime" -> b
         [] c = "passenger_count" -> d
         [] c = "store_and_fwd_flag" -> e
         [] OTHER -> CHOOSE x \in SrcCells(ExtraCol) : TRUE] :
      a \in SrcCells("VendorID"), b \in SrcCells("tpep_pickup_datetime"),
      d \in SrcCells("passenger_count"), e \in SrcCells("store_and_fwd_flag") }
SrcRows(cols) == { [c \in Range(cols) |-> f[c]] : f \in FullRows }
SrcBatches(cols) == UNION { [1 .. n -> SrcRows(cols)] : n \in 1 .. MaxBatchRows }

NoDf == [columns |-> << >>, rows |-> << >>]
NoResult == [ok |-> FALSE, rows |-> << >>]

\* Mutant: the selection df[self.src_cols] is missing.
SelectColumns_all(all, wanted) == all

\* df = df[self.src_cols]
SelectColumns(all, wanted) == wanted

\* pd.to_numeric(..., errors="coerce") on one element: a number, or NaN.
to_numeric(x) == IF x.kind \in {"int", "float"} THEN x ELSE NaN

\* pd.to_datetime(..., errors="coerce") on one element: a timestamp, or NaT.
to_datetime(x) == IF x.kind = "ts" THEN x ELSE NaT

\* .astype("string") on one element.
astype_string(x) == IF IsNull(x) THEN NA ELSE Cell("str", x.v)

\* df.where(pd.notnull(df), None) on one element: None for a null, unless this
\* pandas build keeps the column's own missing value (`keeps`).
where_notnull(x, keeps) == IF IsNull(x) /\ ~keeps THEN PyNone ELSE x

\* _normalize_chunk(df)
normalize_chunk(sdf, keeps) ==
  LET present == Range(sdf.columns)
      added == SelectSeq(src_cols, LAMBDA c : c \notin present)
      all == sdf.columns \o added
      cell1(i, c) == IF c \in present THEN sdf.rows[i][c] ELSE PyNone
      IsFloatCol(c) == \E i \in DOMAIN sdf.rows : to_numeric(cell1(i, c)).kind # "int"
      numeric(i, c) ==
        LET x == to_numeric(cell1(i, c))
        IN IF x.kind = "int" /\ IsFloatCol(c) THEN Cell("float", FloatText(x.v)) ELSE x
      cell2(i, c) ==
        CASE c \in ts_cols -> to_datetime(cell1(i, c))
          [] c \in num_cols -> numeric(i, c)
          [] c = flag_col -> astype_string(cell1(i, c))
          [] OTHER -> cell1(i, c)
      cols == SelectColumns(all, src_cols)
  IN [columns |-> cols,
      rows |-> [i \in DOMAIN sdf.rows |->
                  [c \in Range(cols) |-> where_notnull(cell2(i, c), keeps)]]]

\* A stored value: the column type and the value's text; SQL NULL; a rejected input.
SqlNull == Cell("NULL", "")
Rejected == Cell("ERROR", "")

\* df.to_csv(buf, index=False, header=False): the field of a cell (none of the
\* modelled texts needs quoting; a null and the empty text both give an empty,
\* unquoted field).
to_csv_field(x) == IF IsNull(x) THEN "" ELSE x.v

\* COPY ... WITH (FORMAT CSV): the value stored for a field in a column of a type:
\* an empty unquoted field is NULL, other text goes through the type's input function.
copy_in(type, text) ==
  CASE text = "" -> SqlNull
    [] type = "BIGINT" ->
         IF text \in IntTexts THEN Cell(type, text) ELSE Rejected
    [] type = "DOUBLE PRECISION" ->
         IF text \in IntTexts \cup FloatTexts THEN Cell(type, FloatText(text)) ELSE Rejected
    [] type = "TIMESTAMP" -> IF text \in TsTexts THEN Cell(type, text) ELSE Rejected
    [] OTHER -> Cell(type, text)

\* psycopg2's adaptation of a Python object to an SQL literal, followed by the
\* store's assignment of the literal to a column of a type.
insert_value(type, x) ==
  CASE x.kind = "None" -> SqlNull
    [] x.kind = "NA" -> Rejected
    [] x.kind = "NaT" -> Rejected
    [] x.kind = "NaN" ->
         IF type = "DOUBLE PRECISION" THEN Cell(type, "NaN") ELSE Rejected
    [] x.kind = "int" ->
         IF type = "BIGINT" THEN Cell(type, x.v)
         ELSE IF type = "DOUBLE PRECISION" THEN Cell(type, FloatText(x.v))
         ELSE Rejected
    [] x.kind = "float" ->
         IF type = "BIGINT" THEN Cell(type, IntText(x.v))
         ELSE IF type = "DOUBLE PRECISION" THEN Cell(type, x.v)
         ELSE Rejected
    [] x.kind = "ts" -> IF type = "TIMESTAMP" THEN Cell(type, x.v) ELSE Rejected
    [] OTHER ->
         IF type = "TEXT" THEN Cell(type, x.v)
         ELSE copy_in(type, x.v)

\* What the store keeps of cell x sent to a column of the given type by the
\* method: "copy" sends the CSV field through COPY, "values" the value through
\* INSERT.
store_cell(method, type, x) ==
  IF method = "copy" THEN copy_in(type, to_csv_field(x)) ELSE insert_value(type, x)

\* The rows a load of batch d stores by the method: the k-th column of the batch
\* goes to the k-th column of self.db_cols; the statement fails if the column
\* counts differ, a target column does not exist, or a value is rejected.
load_rows(d, method) ==
  LET target(k) == ColumnOf(db_cols[k])
      stored(i, k) == store_cell(method, TypeOf(target(k)), d.rows[i][d.columns[k]])
      fits == /\ Len(d.columns) = Len(db_cols)
              /\ \A k \in DOMAIN db_cols : target(k) \in TableColumnNames
      ok == fits /\ \A i \in DOMAIN d.rows : \A k \in DOMAIN db_cols :
                      stored(i, k) # Rejected
  IN IF ok
       THEN [ok |-> TRUE,
             rows |-> [i \in DOMAIN d.rows |->
                         [n \in TableColumnNames |->
                            IF \E k \in DOMAIN db_cols : target(k) = n
                              THEN stored(i, CHOOSE k \in DOMAIN db_cols : target(k) = n)
                              ELSE SqlNull]]]
       ELSE NoResult

\* _copy_chunk(df): the CSV stream through COPY.
copy_chunk(d) == load_rows(d, "copy")

\* _values_chunk(df): execute_values, one multi-row INSERT per page.
values_chunk(d) == load_rows(d, "values")

\* ------------------------------------------------------------------ Init

\* The state after construction, the hash values of the names apart.
InitState ==
  /\ pc = [p \in Procs |-> "idle"]
  /\ conn = [p \in Procs |-> FALSE]
  /\ dry_run \in [Procs -> BOOLEAN]
  /\ \E b \in BatchSizes : batch_size = [p \in Procs |-> b]
  /\ runs = 0
  /\ idx = [p \in Procs |-> 0]
  /\ imported_count = [p \in Procs |-> 0]
  /\ total_rows = [p \in Procs |-> 0]
  /\ read_pos = [p \in Procs |-> 0]
  /\ batch_len = [p \in Procs |-> 0]
  /\ batch_no = [p \in Procs |-> 0]
  /\ commits = [p \in Procs |-> 0]
  /\ txn = [p \in Procs |-> "none"]
  /\ result = [p \in Procs |-> "none"]
  /\ table = [i \in FileIds |-> ZeroBase]
  /\ import_log = {}
  /\ advisory_locks = [k \in Keys |-> [p \in Procs |-> 0]]
  /\ faults = 0
  /\ outcome = [p \in Procs |-> "none"]
  /\ writes = [p \in Procs |-> 0]
  /\ log_writes = [p \in Procs |-> 0]
  /\ base = [p \in Procs |-> ZeroBase]
  /\ seen_holder = [p \in Procs |-> NoProc]
  /\ all_logged = [p \in Procs |-> FALSE]

\* The discovered file names have pairwise distinct hashtext values.
DistinctHash == [n \in Names |-> IF n = "a.parquet" THEN 1001 ELSE 1002]

\* No batch is in hand.
NoBatch ==
  /\ src_df = NoDf /\ df = NoDf /\ where_keeps = FALSE
  /\ copy_result = NoResult /\ values_result = NoResult /\ stage = "none"

\* No API call has been made.
NoRows == [done |-> FALSE, rows |-> << >>]
NoResponse == [imported_files |-> -1, total_trips |-> -1, data_dir |-> ""]
NoArgs == [data_dir |-> << >>, dry_run |-> FALSE, method |-> ""]
NoCalls ==
  /\ call_pc = [c \in Calls |-> "idle"]
  /\ args = [c \in Calls |-> NoArgs]
  /\ call_conn = [c \in Calls |-> 0]
  /\ connections = {}
  /\ connects = 0
  /\ file_idx = [c \in Calls |-> 0]
  /\ imported = [c \in Calls |-> 0]
  /\ response = [c \in Calls |-> NoResponse]
  /\ session_locks = [k \in Keys |-> {}]
\* No other tool has run.
NoParquetImporter ==
  /\ imported_rows = [p \in Procs |-> 0]
  /\ imported_files = [p \in Procs |-> 0]

\* No downloader is running.
NoDownload ==
  /\ fs = << >> /\ CHECK_EXISTS = FALSE /\ dl_pc = "idle" /\ month = 0
  /\ downloaded = 0 /\ returned = "none" /\ requests_sent = 0
  /\ parquet_glob = [scanned |-> {}, found |-> {}]

\* No transfer is running.
NoTransfer ==
  /\ pg_rows = 0 /\ chunksize = 1 /\ tr_offset = 0 /\ chunk_index = 1 /\ df_chunk = {}
  /\ cleaned_trips = {} /\ yielded = {} /\ inserted = 0 /\ tr_pc = "idle"

NoTools == NoParquetImporter /\ NoDownload /\ NoTransfer

NoPage ==
  /\ ledger = {}
  /\ page_args = [limit |-> 0, offset |-> 0]
  /\ page = NoRows

\* The run is over the whole tree.
WholeTree == discovered = FileIds

Init == InitState /\ hash_of = DistinctHash /\ WholeTree /\ NoBatch /\ NoCalls /\ NoPage /\ NoTools

\* The discovered file names have any hashtext values: two names may share one.
InitAnyHash ==
  InitState /\ hash_of \in [Names -> Keys] /\ WholeTree /\ NoBatch /\ NoCalls /\ NoPage /\ NoTools

\* Mutant: the flag is ignored.
IsDryRun_never(p) == FALSE

\* if self.dry_run: ... / if not self.dry_run: ...
IsDryRun(p) == dry_run[p]

\* Positions inside the try ... finally of import_parquet (lock taken, not yet released).
LockedPcs == {"open", "read", "commit", "ledger", "rollback", "unlock"}
\* Positions of a run in progress.
ActivePcs == LockedPcs \cup {"check", "lock"}

\* The locals of one import_parquet call go out of scope.
DropLocals(p) ==
  /\ total_rows' = [total_rows EXCEPT ![p] = 0]
  /\ read_pos' = [read_pos EXCEPT ![p] = 0]
  /\ batch_len' = [batch_len EXCEPT ![p] = 0]
  /\ batch_no' = [batch_no EXCEPT ![p] = 0]
  /\ commits' = [commits EXCEPT ![p] = 0]
  /\ base' = [base EXCEPT ![p] = ZeroBase]
  /\ seen_holder' = [seen_holder EXCEPT ![p] = NoProc]

KeepLocals ==
  UNCHANGED << total_rows, read_pos, batch_len, batch_no, commits, base, seen_holder >>
KeepConfig ==
  UNCHANGED << dry_run, batch_size, runs, all_logged, hash_of, discovered, loader_vars,
               api_vars, tool_vars >>
KeepStore == UNCHANGED << table, import_log >>
KeepCounts == UNCHANGED << imported_count, writes, log_writes >>

\* A call on the connection raises because the connection is lost: the session ends.
ConnLost(p) ==
  /\ faults < MaxFaults
  /\ faults' = faults + 1
  /\ conn' = [conn EXCEPT ![p] = FALSE]
  /\ advisory_locks' = SessionEnd(advisory_locks, p)
  /\ txn' = [txn EXCEPT ![p] = "none"]

\* ------------------------------------------------ __init__ and the run loop

\* parquet_files = sorted(data_dir.glob(pattern)); for i, file_path in
\* enumerate(parquet_files, 1): the first file, the last one, the one after file i.
FirstFile(found) == CHOOSE i \in found : \A j \in found : i <= j
IsLastFile(found, i) == \A j \in found : j <= i
FileAfter(found, i) == CHOOSE j \in found : j > i /\ \A k \in found : k > i => j <= k

\* PostgresParquetImporter(...) with the process's dry_run and batch_size, then
\* import_all_parquet_files: connect, create the tables if missing, discover the
\* files, imported_count = 0, enter the loop.
Start(p) ==
  /\ pc[p] \in {"idle", "done", "raised", "crashed"}
  /\ runs < MaxRuns
  /\ runs' = runs + 1
  /\ conn' = [conn EXCEPT ![p] = TRUE]
  /\ idx' = [idx EXCEPT ![p] = FirstFile(discovered)]
  /\ imported_count' = [imported_count EXCEPT ![p] = 0]
  /\ writes' = [writes EXCEPT ![p] = 0]
  /\ log_writes' = [log_writes EXCEPT ![p] = 0]
  /\ all_logged' = [all_logged EXCEPT ![p] =
                      \A n \in Names : has_key(import_log, n)]
  /\ outcome' = [outcome EXCEPT ![p] = "none"]
  /\ result' = [result EXCEPT ![p] = "none"]
  /\ pc' = [pc EXCEPT ![p] = "check"]
  /\ KeepStore /\ KeepLocals
  /\ UNCHANGED << dry_run, batch_size, hash_of, discovered, loader_vars, api_vars,
                  tool_vars, txn,
                  advisory_locks, faults >>

\* Mutant: a file whose import returned False is attempted again.
Return_retry(p, res, locks, alive) ==
  /\ result' = [result EXCEPT ![p] = res]
  /\ imported_count' = [imported_count EXCEPT ![p] = IF res = "True" THEN @ + 1 ELSE @]
  /\ IF res = "False" \/ ~IsLastFile(discovered, idx[p])
       THEN /\ idx' = [idx EXCEPT ![p] =
                        IF res = "False" THEN @ ELSE FileAfter(discovered, @)]
            /\ pc' = [pc EXCEPT ![p] = "check"]
            /\ advisory_locks' = locks
            /\ conn' = [conn EXCEPT ![p] = alive]
       ELSE /\ pc' = [pc EXCEPT ![p] = "done"]
            /\ conn' = [conn EXCEPT ![p] = FALSE]
            /\ advisory_locks' = SessionEnd(locks, p)
            /\ UNCHANGED idx
  /\ DropLocals(p)

\* import_parquet returns res, the session's locks being `locks` and its connection
\* usable or not (`alive`):
\* if self.import_parquet(file_path): imported_count += 1; then the next file, or
\* return imported_count (the caller's finally closes the connection).
Return(p, res, locks, alive) ==
  /\ result' = [result EXCEPT ![p] = res]
  /\ imported_count' = [imported_count EXCEPT ![p] = IF res = "True" THEN @ + 1 ELSE @]
  /\ IF ~IsLastFile(discovered, idx[p])
       THEN /\ idx' = [idx EXCEPT ![p] = FileAfter(discovered, @)]
            /\ pc' = [pc EXCEPT ![p] = "check"]
            /\ advisory_locks' = locks
            /\ conn' = [conn EXCEPT ![p] = alive]
       ELSE /\ pc' = [pc EXCEPT ![p] = "done"]
            /\ conn' = [conn EXCEPT ![p] = FALSE]
            /\ advisory_locks' = SessionEnd(locks, p)
            /\ UNCHANGED idx
  /\ DropLocals(p)

\* The run ends without returning: its loop variables are gone.
EndRun(p) ==
  /\ idx' = [idx EXCEPT ![p] = 0]
  /\ imported_count' = [imported_count EXCEPT ![p] = 0]
  /\ writes' = [writes EXCEPT ![p] = 0]
  /\ log_writes' = [log_writes EXCEPT ![p] = 0]

\* An exception leaves import_parquet and import_all_parquet_files (the loop has no
\* handler); the caller's finally closes the connection.
Raise(p, locks) ==
  /\ result' = [result EXCEPT ![p] = "exc"]
  /\ pc' = [pc EXCEPT ![p] = "raised"]
  /\ conn' = [conn EXCEPT ![p] = FALSE]
  /\ advisory_locks' = SessionEnd(locks, p)
  /\ DropLocals(p)
  /\ EndRun(p)

\* --------------------------------------------------------- import_parquet

\* if self.is_file_imported(file_name): return False   (outside the try)
\* On a connection already lost the query raises.
IsFileImported(p) ==
  /\ pc[p] = "check"
  /\ LET n == file_name(idx[p])
         others == { q \in HoldersOf(advisory_locks, hashtext(n)) \ {p} :
                       idx[q] = idx[p] }
     IN IF ~conn[p]
          THEN /\ Raise(p, advisory_locks)
               /\ outcome' = [outcome EXCEPT ![p] = "Raised"]
          ELSE IF is_file_imported(import_log, n)
                 THEN /\ Return(p, "False", advisory_locks, TRUE)
                      /\ outcome' = [outcome EXCEPT ![p] = "AlreadyImported"]
                      /\ UNCHANGED << writes, log_writes >>
                 ELSE /\ pc' = [pc EXCEPT ![p] = "lock"]
                      /\ UNCHANGED << writes, log_writes >>
                      /\ seen_holder' = [seen_holder EXCEPT ![p] =
                           IF others = {} THEN NoProc ELSE CHOOSE q \in others : TRUE]
                      /\ result' = [result EXCEPT ![p] = "none"]
                      /\ outcome' = [outcome EXCEPT ![p] = "Unchecked"]
                      /\ UNCHANGED << conn, idx, imported_count, total_rows, read_pos,
                                      batch_len, batch_no, commits, base,
                                      advisory_locks >>
  /\ KeepStore /\ KeepConfig
  /\ UNCHANGED << txn, faults >>

\* The ledger check or the lock attempt raises (connection lost): both are outside
\* the try, so the exception leaves import_parquet.
CheckOrLockFail(p) ==
  /\ pc[p] \in {"check", "lock"}
  /\ conn[p]
  /\ faults < MaxFaults
  /\ faults' = faults + 1
  /\ txn' = [txn EXCEPT ![p] = "none"]
  /\ Raise(p, advisory_locks)
  /\ outcome' = [outcome EXCEPT ![p] = "Raised"]
  /\ KeepStore /\ KeepConfig

\* if not self._try_lock_file(file_name): return False
\* _try_lock_file: SELECT pg_try_advisory_lock(hashtext(name)); conn.commit()
TryLockFile(p) ==
  /\ pc[p] = "lock"
  /\ LET k == hashtext(file_name(idx[p]))
     IN IF pg_try_advisory_lock(advisory_locks, p, k)
          THEN /\ advisory_locks' =
                    LocksAfterTxnEnd(LockGranted(advisory_locks, p, k), p)
               /\ pc' = [pc EXCEPT ![p] = "open"]
               /\ outcome' = [outcome EXCEPT ![p] = "Acquired"]
               /\ total_rows' = [total_rows EXCEPT ![p] = 0]
               /\ base' = [base EXCEPT ![p] = table[idx[p]]]
               /\ UNCHANGED << result, conn, idx, imported_count, read_pos,
                               batch_len, batch_no, commits, seen_holder >>
          ELSE /\ Return(p, "False", LocksAfterTxnEnd(advisory_locks, p), TRUE)
               /\ outcome' = [outcome EXCEPT ![p] = "LockDenied"]
  /\ KeepStore /\ KeepConfig
  /\ UNCHANGED << txn, faults, writes, log_writes >>

\* pf = pq.ParquetFile(pa_file); batch_no = 0
OpenParquetFile(p) ==
  /\ pc[p] = "open"
  /\ pc' = [pc EXCEPT ![p] = "read"]
  /\ read_pos' = [read_pos EXCEPT ![p] = 0]
  /\ batch_no' = [batch_no EXCEPT ![p] = 0]
  /\ KeepStore /\ KeepConfig /\ KeepCounts
  /\ UNCHANGED << conn, idx, total_rows, batch_len, commits, base, seen_holder, txn,
                  result, advisory_locks, faults, outcome >>

\* The file cannot be opened, or a later batch cannot be read: except branch.
ReadFail(p) ==
  /\ pc[p] \in {"open", "read"}
  /\ faults < MaxFaults
  /\ faults' = faults + 1
  /\ pc' = [pc EXCEPT ![p] = "rollback"]
  /\ outcome' = [outcome EXCEPT ![p] = "ReadFailed"]
  /\ KeepStore /\ KeepConfig /\ KeepCounts /\ KeepLocals
  /\ UNCHANGED << conn, idx, txn, result, advisory_locks >>

\* Mutant: the break at the end of the loop body is taken in every mode.
BreakAfterBatch_always(p) == TRUE

\* Mutant: the loop body has no break.
BreakAfterBatch_never(p) == FALSE

\* if self.dry_run: break   (end of the loop body)
BreakAfterBatch(p) == IsDryRun(p)

\* One turn of: for batch in pf.iter_batches(...): df = normalize(batch.to_pandas());
\* dry-run: count the batch and break; otherwise load it with _copy_chunk or
\* _values_chunk inside the open transaction.  After the loop: return True in
\* dry-run mode, else go on to the ledger insert.
NextBatch(p) ==
  /\ pc[p] = "read"
  /\ LET i == idx[p]
         n == NextBatchLen(i, read_pos[p], batch_size[p])
     IN IF read_pos[p] < NumRows(i) /\ n > 0
          THEN /\ read_pos' = [read_pos EXCEPT ![p] = @ + n]
               /\ batch_len' = [batch_len EXCEPT ![p] = n]
               /\ batch_no' = [batch_no EXCEPT ![p] = @ + 1]
               /\ IF IsDryRun(p)
                    THEN /\ total_rows' = [total_rows EXCEPT ![p] = RowsAfterBatch(@, n)]
                         /\ IF BreakAfterBatch(p)
                              THEN /\ result' = [result EXCEPT ![p] = "True"]
                                   /\ outcome' = [outcome EXCEPT ![p] = "DryRun"]
                                   /\ pc' = [pc EXCEPT ![p] = "unlock"]
                              ELSE UNCHANGED << result, outcome, pc >>
                         /\ UNCHANGED txn
                    ELSE /\ pc' = [pc EXCEPT ![p] = "commit"]
                         /\ txn' = [txn EXCEPT ![p] = "rows"]
                         /\ UNCHANGED << total_rows, result, outcome >>
          ELSE /\ IF IsDryRun(p)
                    THEN /\ result' = [result EXCEPT ![p] = "True"]
                         /\ outcome' = [outcome EXCEPT ![p] = "DryRun"]
                         /\ pc' = [pc EXCEPT ![p] = "unlock"]
                    ELSE /\ pc' = [pc EXCEPT ![p] = "ledger"]
                         /\ UNCHANGED << result, outcome >>
               /\ UNCHANGED << read_pos, batch_len, batch_no, total_rows, txn >>
  /\ KeepStore /\ KeepConfig /\ KeepCounts
  /\ UNCHANGED << conn, idx, commits, base, seen_holder, advisory_locks, faults >>

\* The load of the batch just read raises and the connection stays usable
\* (constraint violation, malformed stream): except branch.
LoadError(p) ==
  /\ pc[p] = "read"
  /\ ~IsDryRun(p)
  /\ read_pos[p] < NumRows(idx[p])
  /\ faults < MaxFaults
  /\ faults' = faults + 1
  /\ pc' = [pc EXCEPT ![p] = "rollback"]
  /\ outcome' = [outcome EXCEPT ![p] = "LoadFailed"]
  /\ KeepStore /\ KeepConfig /\ KeepCounts /\ KeepLocals
  /\ UNCHANGED << conn, idx, txn, result, advisory_locks >>

\* The load of the batch just read raises because the connection is lost: except
\* branch, on a dead connection.
LoadConnLost(p) ==
  /\ pc[p] = "read"
  /\ ~IsDryRun(p)
  /\ read_pos[p] < NumRows(idx[p])
  /\ ConnLost(p)
  /\ pc' = [pc EXCEPT ![p] = "rollback"]
  /\ outcome' = [outcome EXCEPT ![p] = "LoadFailed"]
  /\ KeepStore /\ KeepConfig /\ KeepCounts /\ KeepLocals
  /\ UNCHANGED << idx, result >>

\* self.conn.commit() after the batch; total_rows += len(df); next turn of the loop
CommitBatch(p) ==
  /\ pc[p] = "commit"
  /\ table' = TableAfterCommit(table, idx[p],
                               read_pos[p] - batch_len[p] + 1, read_pos[p])
  /\ txn' = [txn EXCEPT ![p] = "none"]
  /\ total_rows' = [total_rows EXCEPT ![p] = RowsAfterBatch(@, batch_len[p])]
  /\ writes' = [writes EXCEPT ![p] = @ + batch_len[p]]
  /\ commits' = [commits EXCEPT ![p] = @ + 1]
  /\ pc' = [pc EXCEPT ![p] = IF BreakAfterBatch(p) THEN "ledger" ELSE "read"]
  /\ advisory_locks' = LocksAfterTxnEnd(advisory_locks, p)
  /\ KeepConfig
  /\ UNCHANGED << conn, idx, imported_count, log_writes, read_pos, batch_len,
                  batch_no, base,
                  seen_holder, result, import_log, faults, outcome >>

\* The batch commit raises (connection lost): the batch is not committed.
CommitFail(p) ==
  /\ pc[p] = "commit"
  /\ ConnLost(p)
  /\ pc' = [pc EXCEPT ![p] = "rollback"]
  /\ outcome' = [outcome EXCEPT ![p] = "CommitFailed"]
  /\ KeepStore /\ KeepConfig /\ KeepCounts /\ KeepLocals
  /\ UNCHANGED << idx, result >>

\* if not self.dry_run: INSERT INTO import_log (file_name, rows_imported)
\* VALUES (name, total_rows); self.conn.commit(); return True
\* file_name is the PRIMARY KEY: an existing entry makes the insert raise.
LedgerInsert(p) ==
  /\ pc[p] = "ledger"
  /\ IF unique_violation(import_log, file_name(idx[p]))
       THEN /\ pc' = [pc EXCEPT ![p] = "rollback"]
            /\ outcome' = [outcome EXCEPT ![p] = "LedgerFailed"]
            /\ UNCHANGED << import_log, log_writes, result, advisory_locks >>
       ELSE /\ advisory_locks' = LocksAfterTxnEnd(advisory_locks, p)
            /\ import_log' = import_log \cup
                 { [file_name |-> file_name(idx[p]), rows_imported |-> total_rows[p]] }
            /\ log_writes' = [log_writes EXCEPT ![p] = @ + 1]
            /\ result' = [result EXCEPT ![p] = "True"]
            /\ outcome' = [outcome EXCEPT ![p] = "Imported"]
            /\ pc' = [pc EXCEPT ![p] = "unlock"]
  /\ KeepConfig /\ KeepLocals
  /\ UNCHANGED << conn, idx, imported_count, writes, table, txn, faults >>

\* The ledger insert or its commit raises (connection lost): no entry is committed.
LedgerFail(p) ==
  /\ pc[p] = "ledger"
  /\ ConnLost(p)
  /\ pc' = [pc EXCEPT ![p] = "rollback"]
  /\ outcome' = [outcome EXCEPT ![p] = "LedgerFailed"]
  /\ KeepStore /\ KeepConfig /\ KeepCounts /\ KeepLocals
  /\ UNCHANGED << idx, result >>

\* Mutant: except Exception: self.conn.rollback(); raise
ResultAfterExcept_reraise(alive) == "exc"

\* What the except branch leaves pending: return False after conn.rollback(), or
\* the exception that rollback() raises on a lost connection.
ResultAfterExcept(alive) == IF alive THEN "False" ELSE "exc"

\* except Exception: self.conn.rollback(); return False
\* On a lost connection rollback() itself raises: the exception leaves the except
\* branch (the finally still runs) and then import_parquet.
Rollback(p) ==
  /\ pc[p] = "rollback"
  /\ txn' = [txn EXCEPT ![p] = "none"]
  /\ result' = [result EXCEPT ![p] = ResultAfterExcept(conn[p])]
  /\ pc' = [pc EXCEPT ![p] = "unlock"]
  /\ advisory_locks' = IF conn[p] THEN LocksAfterTxnEnd(advisory_locks, p)
                                  ELSE advisory_locks
  /\ KeepStore /\ KeepConfig /\ KeepCounts /\ KeepLocals
  /\ UNCHANGED << conn, idx, faults, outcome >>

\* The finally of import_parquet (the unlock), then the pending return or exception
\* takes effect.
UnlockFile(p) ==
  /\ pc[p] = "unlock"
  /\ LET locks == LocksAfterFinally(advisory_locks, p, hashtext(file_name(idx[p])),
                                     conn[p], result[p])
     IN IF result[p] = "exc"
          THEN /\ Raise(p, locks)
               /\ outcome' = [outcome EXCEPT ![p] = "Raised"]
          ELSE /\ Return(p, result[p], locks, conn[p])
               /\ UNCHANGED << outcome, writes, log_writes >>
  /\ KeepStore /\ KeepConfig
  /\ UNCHANGED << txn, faults >>

\* The unlock raises (connection lost at that moment): swallowed by the finally's
\* except; the pending return or exception takes effect.
UnlockFail(p) ==
  /\ pc[p] = "unlock"
  /\ conn[p]
  /\ faults < MaxFaults
  /\ faults' = faults + 1
  /\ Return(p, result[p], SessionEnd(advisory_locks, p), FALSE)
  /\ UNCHANGED outcome
  /\ KeepStore /\ KeepConfig
  /\ UNCHANGED << txn, writes, log_writes >>

\* The process dies during a run: its session ends, its open transaction is lost.
Crash(p) ==
  /\ pc[p] \in ActivePcs
  /\ ConnLost(p)
  /\ pc' = [pc EXCEPT ![p] = "crashed"]
  /\ outcome' = [outcome EXCEPT ![p] = "Crashed"]
  /\ result' = [result EXCEPT ![p] = "none"]
  /\ DropLocals(p)
  /\ EndRun(p)
  /\ KeepStore /\ KeepConfig

\* One step of process p.
Step(p) ==
  \/ Start(p)
  \/ IsFileImported(p)
  \/ CheckOrLockFail(p)
  \/ TryLockFile(p)
  \/ OpenParquetFile(p)
  \/ ReadFail(p)
  \/ NextBatch(p)
  \/ LoadError(p)
  \/ LoadConnLost(p)
  \/ CommitBatch(p)
  \/ CommitFail(p)
  \/ LedgerInsert(p)
  \/ LedgerFail(p)
  \/ Rollback(p)
  \/ UnlockFile(p)
  \/ UnlockFail(p)
  \/ Crash(p)

Next == \E p \in Procs : Step(p)

Spec == Init /\ [][Next]_vars

\* The same program over file names whose hashtext values are not known to differ.
SpecAnyHash == InitAnyHash /\ [][Next]_vars

\* ------------------------------------------- one batch through the pipeline

\* The importer variables, which the batch pipeline leaves alone.
importer_vars ==
  << pc, conn, dry_run, batch_size, runs, idx, imported_count, total_rows,
     read_pos, batch_len, batch_no, commits, txn, result, table, import_log,
     advisory_locks, faults, outcome, writes, log_writes, base, seen_holder,
     all_logged, hash_of, discovered >>

\* A source batch of any modelled shape in hand, on either kind of pandas build.
InitBatch ==
  /\ dry_run = [p \in Procs |-> FALSE]
  /\ batch_size = [p \in Procs |-> MaxBatchRows]
  /\ InitState
  /\ hash_of = DistinctHash /\ WholeTree
  /\ \E cols \in SrcColumnLists : \E rows \in SrcBatches(cols) :
       src_df = [columns |-> cols, rows |-> rows]
  /\ where_keeps \in BOOLEAN
  /\ df = NoDf /\ copy_result = NoResult /\ values_result = NoResult
  /\ stage = "source"
  /\ NoCalls /\ NoPage /\ NoTools

\* df = self._normalize_chunk(df)
NormalizeChunk ==
  /\ stage = "source"
  /\ df' = normalize_chunk(src_df, where_keeps)
  /\ stage' = "normalized"
  /\ UNCHANGED << src_df, where_keeps, copy_result, values_result, importer_vars, api_vars, tool_vars >>

\* self._copy_chunk(df)   (method == "copy")
CopyChunk ==
  /\ stage = "normalized"
  /\ copy_result' = copy_chunk(df)
  /\ stage' = "copied"
  /\ UNCHANGED << src_df, df, where_keeps, values_result, importer_vars, api_vars, tool_vars >>

\* self._values_chunk(df)   (method == "values"), on the same batch
ValuesChunk ==
  /\ stage = "copied"
  /\ values_result' = values_chunk(df)
  /\ stage' = "loaded"
  /\ UNCHANGED << src_df, df, where_keeps, copy_result, importer_vars, api_vars, tool_vars >>

NextBatchStep == NormalizeChunk \/ CopyChunk \/ ValuesChunk

SpecBatch == InitBatch /\ [][NextBatchStep]_vars

\* ------------------------------------------------------------ properties

\* Every run that was started has returned, and at least one was started.
AllRunsEnded == runs > 0 /\ \A p \in Procs : pc[p] \in {"idle", "done"}

\* No other discovered file has the base name of file i.
UniqueName(i) == \A j \in FileIds : file_name(j) = file_name(i) => j = i

\* Process p is between a successful _try_lock_file and its _unlock_file, on a
\* live connection.
Holding(p) == pc[p] \in LockedPcs /\ conn[p]

\* C1: with only real (non dry-run) importers, no crash and no failure, once all
\* runs have ended every row of every file is in the trip table at most once, and
\* exactly once for a file whose base name no other file shares.
C1_RowsExactlyOnce ==
  (AllRunsEnded /\ faults = 0 /\ \A p \in Procs : ~dry_run[p]) =>
    \A i \in FileIds : \A r \in RowIds(i) :
      /\ table[i][r] <= 1
      /\ UniqueName(i) => table[i][r] = 1

\* C2: an import attempt on file F (real importers, no failure) whose ledger check
\* ran while another process, importing F, held F's lock never takes the lock:
\* it stays before the lock attempt until it is denied and returns.
C2_SecondIsDenied ==
  \A p \in Procs :
    (seen_holder[p] # NoProc /\ faults = 0 /\ \A q \in Procs : ~dry_run[q]) =>
      pc[p] \notin LockedPcs

C4_RerunSkipsAll ==
  \A p \in Procs :
    (all_logged[p] /\ pc[p] \in ActivePcs \cup {"done"}) =>
      /\ pc[p] \in {"check", "done"}
      /\ writes[p] = 0 /\ log_writes[p] = 0 /\ imported_count[p] = 0

\* C4 witness: a real importer's run over a fully imported directory has returned.
C4_Witness ==
  \E p \in Procs :
    /\ all_logged[p] /\ ~dry_run[p] /\ pc[p] = "done" /\ imported_count[p] = 0
    /\ \A n \in Names : has_key(import_log, n)

\* C5: a process that is not inside the try ... finally of import_parquet (it has
\* returned or raised, or has not taken the lock) holds no advisory lock.
C5_LockReleasedOnReturn ==
  \A p \in Procs :
    pc[p] \notin LockedPcs => \A k \in Keys : advisory_locks[k][p] = 0

\* C5 witness: import_parquet returned False after a failure, on a live
\* connection, and the orchestrator is at the next file; the lock is free.
C5_Witness ==
  \E p \in Procs :
    /\ pc[p] = "check" /\ conn[p] /\ idx[p] > 1 /\ result[p] = "False"
    /\ outcome[p] \in {"ReadFailed", "LoadFailed", "LedgerFailed"}
    /\ HoldersOf(advisory_locks, hashtext(file_name(idx[p] - 1))) = {}

\* C6: every ledger entry (F, n) is for a discovered file named F all of whose rows
\* are committed in the trip table, and n is that file's row count.
C6_LedgerMeansFullyLoaded ==
  \A e \in import_log :
    \E i \in FileIds :
      /\ file_name(i) = e.file_name
      /\ e.rows_imported = NumRows(i)
      /\ \A r \in RowIds(i) : table[i][r] >= 1

\* C6 witness: the ledger holds the entry of a file loaded in several batches.
C6_Witness ==
  \E e \in import_log : \E p \in Procs :
    /\ e.rows_imported > batch_size[p]
    /\ \A r \in 1 .. e.rows_imported : table[1][r] >= 1

\* C7: after the load of a batch has raised and the except branch has run,
\* import_parquet is about to return False (so the run goes on to the next file).
C7_LoadFailureReturnsFalse ==
  \A p \in Procs :
    (outcome[p] = "LoadFailed" /\ pc[p] = "unlock") => result[p] = "False"

\* C8: once a run has started, import_all_parquet_files never raises.
C8_RunNeverRaises == \A p \in Procs : pc[p] # "raised"

\* C9: no step of a dry-run importer changes the trip table or the ledger.
C9_DryRunPurity ==
  [][\A p \in Procs :
       (dry_run[p] /\ Step(p)) => (table' = table /\ import_log' = import_log)]_vars

\* C9 witness: a dry-run run has returned, having read the first batch of every
\* file and counted every file.
C9_Witness ==
  \E p \in Procs :
    /\ dry_run[p] /\ pc[p] = "done" /\ imported_count[p] = Len(parquet_files)

\* C10: when an import of file F completes (ledger entry committed), the trip
\* table holds every row of F once more than when this import took the lock:
\* rows committed by an earlier attempt that left no ledger entry are kept, and F
\* was reloaded from its first batch on top of them.
C10_ReprocessDuplicates ==
  \A p \in Procs :
    (pc[p] = "unlock" /\ outcome[p] = "Imported" /\ conn[p]) =>
      /\ has_key(import_log, file_name(idx[p]))
      /\ \A r \in RowIds(idx[p]) : table[idx[p]][r] = base[p][r] + 1

\* C10 witness: file 1 had its first batch committed and no ledger entry; the
\* next attempt passed the ledger check, reloaded it and completed.
C10_Witness ==
  \E p \in Procs :
    /\ pc[p] = "unlock" /\ outcome[p] = "Imported" /\ idx[p] = 1
    /\ base[p][1] = 1 /\ base[p][NumRows(1)] = 0
    /\ table[1][1] = 2 /\ table[1][NumRows(1)] = 1

\* C11: when the ledger holds the name of the file, the ledger check of
\* import_parquet (on a live connection) ends the call as AlreadyImported: it
\* returns False, the call never reaches the lock attempt, no lock is acquired or
\* released, no row and no ledger entry is written, and the file is not counted.
C11_AlreadyImportedSkips ==
  [][\A p \in Procs :
       (/\ IsFileImported(p)
        /\ conn[p]
        /\ has_key(import_log, file_name(idx[p]))) =>
         /\ outcome'[p] = "AlreadyImported"
         /\ result'[p] = "False"
         /\ pc'[p] \in {"check", "done"}
         /\ advisory_locks' = advisory_locks
         /\ table' = table
         /\ import_log' = import_log
         /\ imported_count'[p] = imported_count[p]]_vars

\* C11 witness: a real importer skipped a file whose name is in the ledger and
\* is at the next file, no lock being held by it.
C11_Witness ==
  \E p \in Procs :
    /\ ~dry_run[p] /\ pc[p] = "check" /\ conn[p] /\ idx[p] > 1
    /\ outcome[p] = "AlreadyImported" /\ result[p] = "False"
    /\ has_key(import_log, file_name(idx[p] - 1))
    /\ \A k \in Keys : advisory_locks[k][p] = 0

\* C12: when another session holds the advisory lock of the file's name, the lock
\* attempt of import_parquet ends the call as LockDenied: it returns False, never
\* enters the try (the file is not opened, the unlock is not called), writes no
\* row and no ledger entry, and leaves the lock table as it was.
C12_LockDeniedLeavesAll ==
  [][\A p \in Procs :
       (/\ TryLockFile(p)
        /\ HoldersOf(advisory_locks, hashtext(file_name(idx[p]))) \ {p} # {}) =>
         /\ outcome'[p] = "LockDenied"
         /\ result'[p] = "False"
         /\ pc'[p] \in {"check", "done"}
         /\ advisory_locks' = advisory_locks
         /\ table' = table
         /\ import_log' = import_log
         /\ imported_count'[p] = imported_count[p]]_vars

\* C12 witness: a process was denied the lock of a file and went on to the next
\* file while the holder, still inside its import of that name, keeps the lock.
C12_Witness ==
  \E p \in Procs : \E q \in Procs \ {p} :
    /\ pc[p] = "check" /\ idx[p] > 1
    /\ outcome[p] = "LockDenied" /\ result[p] = "False"
    /\ Holding(q) /\ file_name(idx[q]) = file_name(idx[p] - 1)
    /\ advisory_locks[hashtext(file_name(idx[q]))][q] = 1
    /\ \A k \in Keys : advisory_locks[k][p] = 0

\* C13: the advisory lock is scoped per file name: a lock attempt on a file name
\* that no other process is holding the lock for (whatever other names they hold
\* locks for) is never denied.
C13_LockScopedPerName ==
  [][\A p \in Procs :
       (/\ TryLockFile(p)
        /\ \A q \in Procs \ {p} :
             Holding(q) => file_name(idx[q]) # file_name(idx[p])) =>
         outcome'[p] # "LockDenied"]_vars

\* C14: a lock dies with its holder's connection: a process whose connection is
\* gone (crashed, connection lost, run ended) holds no advisory lock, so the lock
\* attempt of another process on the file it was importing is granted.
C14_LockDiesWithConnection ==
  \A p \in Procs :
    ~conn[p] => \A k \in Keys : advisory_locks[k][p] = 0

\* C14 witness: a process crashed while it held the lock of file 1, its first
\* batch committed and no ledger entry written; the other process then passed the
\* ledger check, took the lock and imported the file.
C14_Witness ==
  \E p \in Procs : \E q \in Procs \ {p} :
    /\ pc[p] = "crashed" /\ ~conn[p] /\ faults = 1
    /\ pc[q] = "unlock" /\ outcome[q] = "Imported" /\ result[q] = "True"
    /\ idx[q] = 1 /\ base[q][1] = 1
    /\ advisory_locks[hashtext(file_name(1))][q] = 1
    /\ [file_name |-> file_name(1), rows_imported |-> NumRows(1)] \in import_log

\* C15: the ledger only grows: every step keeps every entry as it is (same name,
\* same rows_imported), and the ledger never holds two entries for one file name;
\* a second insert for a name fails and changes nothing.
C15_LedgerOnlyGrows ==
  [][/\ \A e \in import_log : e \in import_log'
     /\ \A e1 \in import_log' : \A e2 \in import_log' :
          e1.file_name = e2.file_name => e1 = e2]_vars

\* C15 witness: the ledger insert of a process failed on an entry that another
\* process had committed for the same name, and that entry is still there.
C15_Witness ==
  \E p \in Procs :
    /\ pc[p] = "rollback" /\ conn[p] /\ outcome[p] = "LedgerFailed"
    /\ total_rows[p] = NumRows(idx[p])
    /\ \E e \in import_log : e.file_name = file_name(idx[p])

\* SELECT COUNT(*) over the rows of one file: copies[r] copies of each row r = 1..n.
RECURSIVE SumRows(_, _)
SumRows(copies, n) == IF n = 0 THEN 0 ELSE copies[n] + SumRows(copies, n - 1)

\* C16 as stated: at each batch commit of an import the number of rows of the file
\* in the trip table strictly increases, by at most the batch size, and after the
\* commit of the last batch it is the file's row count R.
C16_RowsInTableReachR ==
  [][\A p \in Procs :
       CommitBatch(p) =>
         LET i == idx[p]
             before == SumRows(table[i], NumRows(i))
             after == SumRows(table'[i], NumRows(i))
         IN /\ after > before
            /\ after - before <= batch_size[p]
            /\ read_pos[p] = NumRows(i) => after = NumRows(i)]_vars

\* C16 amended: at each batch commit of an import the number of rows of the file
\* in the trip table strictly increases, by at most the batch size, and after the
\* commit of the last batch it is R more than when the import took the lock.
C16_BatchMonotonicity ==
  [][\A p \in Procs :
       CommitBatch(p) =>
         LET i == idx[p]
             before == SumRows(table[i], NumRows(i))
             after == SumRows(table'[i], NumRows(i))
         IN /\ after > before
            /\ after - before <= batch_size[p]
            /\ read_pos[p] = NumRows(i) =>
                 after - SumRows(base[p], NumRows(i)) = NumRows(i)]_vars

\* C16 witness: file 1 (3 rows) has been loaded in two batches of at most 2 rows
\* on top of rows an earlier attempt had left, and its last batch is committed.
C16_Witness ==
  \E p \in Procs :
    /\ pc[p] = "ledger" /\ conn[p] /\ idx[p] = 1 /\ batch_size[p] < NumRows(1)
    /\ total_rows[p] = NumRows(1)
    /\ SumRows(base[p], NumRows(1)) > 0
    /\ SumRows(table[1], NumRows(1)) = SumRows(base[p], NumRows(1)) + NumRows(1)

\* ceil(R / B)
Ceil(R, B) == (R + B - 1) \div B

\* C17: a file of R rows imported with batch size B is read as ceil(R/B) batches,
\* each of B rows except a smaller last one, each batch committed once before the
\* next is read, and a completed import has made ceil(R/B) batch commits and one
\* ledger entry (F, R).
C17_BatchesAndCommits ==
  \A p \in Procs :
    LET R == NumRows(idx[p])
        B == batch_size[p]
        nb == Ceil(R, B)
    IN /\ pc[p] = "commit" =>
            /\ batch_no[p] \in 1 .. nb
            /\ batch_len[p] = IF batch_no[p] < nb THEN B ELSE R - (nb - 1) * B
            /\ commits[p] = batch_no[p] - 1
       /\ pc[p] = "read" => (commits[p] = batch_no[p] /\ batch_no[p] <= nb)
       /\ pc[p] = "ledger" => (batch_no[p] = nb /\ commits[p] = nb)
       /\ (pc[p] = "unlock" /\ outcome[p] = "Imported") =>
            /\ commits[p] = nb
            /\ total_rows[p] = R
            /\ \A e \in import_log :
                 e.file_name = file_name(idx[p]) => e.rows_imported = R
            /\ \E e \in import_log : e.file_name = file_name(idx[p])

\* C17 witness: file 1 (3 rows) was imported with batch size 2: two batches (2
\* rows, 1 row), two batch commits, one ledger entry with rows_imported = 3.
C17_Witness ==
  \E p \in Procs :
    /\ pc[p] = "unlock" /\ outcome[p] = "Imported" /\ idx[p] = 1
    /\ batch_size[p] = 2 /\ batch_no[p] = 2 /\ commits[p] = 2 /\ batch_len[p] = 1
    /\ import_log = { [file_name |-> file_name(1), rows_imported |-> 3] }

\* C18: within one file, batches are loaded and committed in file order: while a
\* real (non dry-run) process is importing a file, the rows this import has committed are exactly
\* the first total_rows rows of the file, once each; the batch loaded and not yet
\* committed is the one that starts right after them; and the rows of any file
\* present in the trip table are always its first k rows for some k.
C18_CommittedRowsArePrefix ==
  /\ \A p \in Procs :
       (Holding(p) /\ ~dry_run[p]) =>
         LET i == idx[p]
         IN /\ \A r \in RowIds(i) :
                 table[i][r] = base[p][r] + (IF r <= total_rows[p] THEN 1 ELSE 0)
            /\ pc[p] = "commit" =>
                 /\ txn[p] = "rows"
                 /\ read_pos[p] - batch_len[p] = total_rows[p]
            /\ pc[p] \in {"read", "ledger"} => read_pos[p] = total_rows[p]
  /\ \A i \in FileIds :
       \E k \in 0 .. NumRows(i) :
         \A r \in RowIds(i) : table[i][r] > 0 <=> r <= k

\* C18 witness: the first batch of file 1 is committed and the second is loaded,
\* not yet committed: the table holds the first batch only.
C18_Witness ==
  \E p \in Procs :
    /\ pc[p] = "commit" /\ conn[p] /\ idx[p] = 1 /\ batch_no[p] = 2
    /\ total_rows[p] = batch_size[p]
    /\ table[1][1] = 1 /\ table[1][NumRows(1)] = 0

\* The path components of the discovered files, in increasing string order.
ComponentOrder == << "2024", "2025", "a.parquet", "b.parquet" >>
Rank(c) == CHOOSE k \in 1 .. Len(ComponentOrder) : ComponentOrder[k] = c

\* Path f sorts before path g: sorted() compares paths component by component.
PathBefore(f, g) ==
  \/ Rank(f.dir) < Rank(g.dir)
  \/ f.dir = g.dir /\ Rank(f.name) < Rank(g.name)

\* C19: import_all_parquet_files attempts the discovered files one at a time, in
\* the sorted order of their paths, each once per run: an attempt (entering the
\* ledger check of a file) starts only when the run starts (first file) or when
\* the previous call has returned (next file, never the same file again), the
\* run returns only after the attempt on the last file, and the file index changes
\* in no other way while the run goes on.
C19_OneAttemptPerFileInOrder ==
  [][/\ \A i \in FileIds : \A j \in FileIds :
          i < j => PathBefore(parquet_files[i], parquet_files[j])
     /\ \A p \in Procs :
          /\ (pc'[p] = "check" /\ (pc[p] # "check" \/ idx'[p] # idx[p])) =>
               /\ pc[p] \in {"check", "lock", "unlock", "idle", "done", "raised", "crashed"}
               /\ idx'[p] = IF pc[p] \in ActivePcs THEN idx[p] + 1 ELSE 1
          /\ (pc'[p] \in ActivePcs /\ pc'[p] # "check") => idx'[p] = idx[p]
          /\ (pc'[p] = "done" /\ pc[p] # "done") => idx[p] = Len(parquet_files)
          /\ idx'[p] \in 0 .. Len(parquet_files)]_vars

\* C19 witness: the only run, of a real importer, has returned after attempting
\* every file: the import of one file failed after its first batch commit and was
\* not attempted again (its rows are there once, its name has no ledger entry),
\* and the file after it was imported.
C19_Witness ==
  \E p \in Procs :
    /\ pc[p] = "done" /\ ~dry_run[p] /\ idx[p] = Len(parquet_files)
    /\ faults = 1 /\ runs = 1 /\ imported_count[p] = 2
    /\ table[1][1] = 1 /\ table[1][NumRows(1)] = 0
    /\ import_log = { [file_name |-> file_name(2), rows_imported |-> NumRows(2)],
                      [file_name |-> file_name(3), rows_imported |-> NumRows(3)] }

\* C20: when the file cannot be opened, or a later batch cannot be read, the
\* import of the file is aborted: the call goes through the except branch and the
\* finally, never to the ledger insert, returns False, holds no lock once it has
\* returned, and the run goes on to the next file (or returns after the last).
C20_ReadFailureSkipsFile ==
  \A p \in Procs :
    outcome[p] = "ReadFailed" =>
      /\ pc[p] \in {"rollback", "unlock", "check", "done"}
      /\ pc[p] = "unlock" => result[p] = "False"
      /\ pc[p] \in {"check", "done"} =>
           /\ result[p] = "False"
           /\ \A k \in Keys : advisory_locks[k][p] = 0

\* C20 witness: reading the second batch of file 1 failed after the first batch
\* was committed; the call returned False, the name has no ledger entry, the lock
\* is free, and the run is at the next file on a live connection.
C20_Witness ==
  \E p \in Procs :
    /\ outcome[p] = "ReadFailed" /\ pc[p] = "check" /\ conn[p] /\ idx[p] = 2
    /\ result[p] = "False" /\ runs = 1
    /\ table[1][1] = 1 /\ table[1][NumRows(1)] = 0
    /\ import_log = {}
    /\ HoldersOf(advisory_locks, hashtext(file_name(1))) = {}

\* C22: _normalize_chunk returns a batch whose columns are exactly the canonical
\* list in canonical order, with the rows of the source batch: a canonical column
\* absent from the source is null in every row, a source column outside the list
\* is gone, and the k-th column is the k-th column of the list given to the store,
\* which names a column of the table.
C22_CanonicalColumns ==
  stage # "source" =>
    /\ df.columns = src_cols
    /\ Len(df.rows) = Len(src_df.rows)
    /\ \A i \in DOMAIN df.rows :
         /\ DOMAIN df.rows[i] = Range(src_cols)
         /\ \A c \in Range(src_cols) :
              c \notin Range(src_df.columns) => IsNull(df.rows[i][c])
    /\ Len(db_cols) = Len(src_cols)
    /\ \A k \in DOMAIN src_cols :
         /\ db_cols[k].ident = df.columns[k]
         /\ ColumnOf(db_cols[k]) \in TableColumnNames

\* C22 witness: a two-row source batch without the VendorID column has been
\* normalized: the column is there, first, and null in both rows.
C22_Witness ==
  /\ stage = "normalized"
  /\ "VendorID" \notin Range(src_df.columns)
  /\ Len(df.rows) = 2
  /\ df.columns[1] = "VendorID"
  /\ \A i \in DOMAIN df.rows : IsNull(df.rows[i]["VendorID"])

\* C21: for every normalized batch, the bulk strategy (_copy_chunk) and the
\* row-insert strategy (_values_chunk) store the same rows with the same values in
\* the same columns (or both fail), null cells and empty-text cells included.
C21_StrategiesStoreTheSame ==
  stage = "loaded" => copy_result = values_result

\* A cell of a numeric or timestamp source column that holds a token which does
\* not parse as the column's kind.
Unparseable(c, x) ==
  /\ ~IsNull(x)
  /\ \/ c \in num_cols /\ x.kind \notin {"int", "float"}
     \/ c \in ts_cols /\ x.kind # "ts"

\* C23: coercion safety: for a source batch in which a numeric or timestamp cell
\* holds an unparseable token, _normalize_chunk returns (no error) a batch with
\* the same row count in which exactly the unparseable (and the already null)
\* cells are null and every other cell has its value, and the load of the batch
\* (bulk strategy, the default) stores all its rows.
C23_CoercionSafety ==
  (/\ stage = "loaded"
   /\ \E i \in DOMAIN src_df.rows : \E c \in Range(src_df.columns) :
        Unparseable(c, src_df.rows[i][c])) =>
    /\ Len(df.rows) = Len(src_df.rows)
    /\ \A i \in DOMAIN src_df.rows :
         \A c \in Range(src_df.columns) \cap Range(src_cols) :
           LET x == src_df.rows[i][c]
               y == df.rows[i][c]
           IN /\ IsNull(y) <=> (IsNull(x) \/ Unparseable(c, x))
              /\ ~IsNull(y) => (y.v = x.v \/ y.v = FloatText(x.v))
    /\ copy_result.ok
    /\ Len(copy_result.rows) = Len(src_df.rows)

\* C24: a failure of the lock release at the end of import_parquet is not re-raised:
\* import_parquet returns the result that was pending (True after a completed
\* import, False after a failed one), the orchestrator counts it as it would have,
\* and the run goes on with the next file, which it attempts without raising.
C24_UnlockFailureSwallowed ==
  [][\A p \in Procs :
       /\ (pc[p] = "unlock" /\ conn[p] /\ ~conn'[p] /\ pc'[p] \in {"check", "done"}) =>
            /\ result'[p] = result[p]
            /\ imported_count'[p] =
                 imported_count[p] + (IF result[p] = "True" THEN 1 ELSE 0)
       /\ (pc[p] = "check" /\ ~conn[p]) => pc'[p] # "raised"]_vars

\* C25: in dry-run mode import_parquet processes only the first batch of the file:
\* it reads at most one batch (at most batch_size rows), loads nothing, commits no
\* data and inserts no ledger entry, and having read that batch it returns True,
\* which the orchestrator counts.
C25_DryRunFirstBatchOnly ==
  /\ [](\A p \in Procs : dry_run[p] =>
          /\ batch_no[p] <= 1
          /\ read_pos[p] <= batch_size[p]
          /\ pc[p] \notin {"commit", "ledger"}
          /\ txn[p] = "none"
          /\ commits[p] = 0 /\ writes[p] = 0 /\ log_writes[p] = 0
          /\ (batch_no[p] = 1 /\ pc[p] # "rollback") =>
                (pc[p] = "unlock" /\ result[p] = "True"))
  /\ [][\A p \in Procs :
          (dry_run[p] /\ pc[p] = "unlock" /\ batch_no[p] = 1 /\ result[p] = "True"
             /\ pc'[p] \in {"check", "done"}) =>
            /\ result'[p] = "True"
            /\ imported_count'[p] = imported_count[p] + 1
            /\ table' = table /\ import_log' = import_log]_vars

\* A dry run has gone past a file with more rows than one batch, counted it, and
\* left the store empty.
C25_Witness ==
  \E p \in Procs :
    /\ dry_run[p] /\ batch_size[p] < NumRows(1)
    /\ pc[p] = "check" /\ idx[p] = 2
    /\ result[p] = "True" /\ outcome[p] = "DryRun"
    /\ imported_count[p] = 1
    /\ import_log = {} /\ \A i \in FileIds : \A r \in RowIds(i) : table[i][r] = 0

\* ------------------------------------------------ run_import (api/importer_runner.py)

\* Connections opened over a behaviour.
MaxConnects == 3

ConnIds == 1 .. MaxConnects

\* data_dir: Path | None.  A Path is its sequence of parts.
NoneDir == << >>
DATA_DIR == << "data" >>
DataDirArgs == { NoneDir, << "data", "raw" >> }
\* method, as the route passes it on from the request body.
Methods == {"copy", "bulk"}

\* str(data_dir)
PathStr(parts) ==
  CASE parts = << "data" >> -> "data"
    [] parts = << "data", "raw" >> -> "data/raw"
    [] OTHER -> "."

\* data_dir or Path(settings.DATA_DIR)
EffectiveDir(arg) == IF arg = NoneDir THEN DATA_DIR ELSE arg

\* psycopg2.connect(...): a new session of the store.
psycopg2_connect(n) == n + 1

\* SELECT COUNT(*) FROM yellow_taxi_trips
total_trips(tbl) ==
  LET RECURSIVE Sum(_)
      Sum(i) == IF i = 0 THEN 0 ELSE SumRows(tbl[i], Cardinality(AllRowIds)) + Sum(i - 1)
  IN Sum(Len(parquet_files))

\* importer.close(): cur.close(); conn.close()
close(conns, s) == conns \ {s}

\* The session s has ended: its advisory locks are gone.
SessionLocksAfterEnd(locks, s) == [k \in Keys |-> locks[k] \ {s}]

\* The store and the importer processes of the other specifications stay as they are.
KeepImporters ==
  UNCHANGED << pc, conn, dry_run, batch_size, runs, idx, imported_count, total_rows,
               read_pos, batch_len, batch_no, commits, txn, result, advisory_locks,
               outcome, writes, log_writes, base, seen_holder, all_logged, hash_of,
               discovered, loader_vars, reader_vars, tool_vars >>

\* run_import(data_dir, dry_run, method) up to the try: the importer is constructed,
\* __init__ connects, creates the tables if missing and checks
\* `assert method in {"copy", "values"}`.  A failed assert leaves run_import before
\* its try, with the connection open and no one to close it.
\* Then import_all_parquet_files starts: imported_count = 0.
CallRunImport(c) ==
  /\ call_pc[c] \in {"idle", "returned", "raised"}
  /\ connects < MaxConnects
  /\ connects' = connects + 1
  /\ \E d \in DataDirArgs, dr \in BOOLEAN, m \in Methods :
       /\ args' = [args EXCEPT ![c] = [data_dir |-> d, dry_run |-> dr, method |-> m]]
       /\ call_pc' = [call_pc EXCEPT ![c] =
                        IF m \in {"copy", "values"} THEN "loop" ELSE "raised"]
  /\ call_conn' = [call_conn EXCEPT ![c] = psycopg2_connect(connects)]
  /\ connections' = connections \cup {psycopg2_connect(connects)}
  /\ file_idx' = [file_idx EXCEPT ![c] = 1]
  /\ imported' = [imported EXCEPT ![c] = 0]
  /\ response' = [response EXCEPT ![c] = NoResponse]
  /\ UNCHANGED << session_locks, table, import_log, faults >>
  /\ KeepImporters

\* The importer of a call that raised in __init__ is unreachable; when the
\* interpreter frees it, the connection object closes its socket.
CollectGarbage(c) ==
  /\ call_pc[c] = "raised"
  /\ call_conn[c] \in connections
  /\ connections' = connections \ {call_conn[c]}
  /\ session_locks' = SessionLocksAfterEnd(session_locks, call_conn[c])
  /\ UNCHANGED << call_pc, args, call_conn, connects, file_idx, imported, response,
                  table, import_log, faults >>
  /\ KeepImporters

\* import_parquet returned: count it, then the next file or the end of the loop.
NextFile(c, res) ==
  /\ imported' = [imported EXCEPT ![c] = IF res THEN @ + 1 ELSE @]
  /\ IF file_idx[c] < Len(parquet_files)
       THEN /\ file_idx' = [file_idx EXCEPT ![c] = @ + 1]
            /\ call_pc' = [call_pc EXCEPT ![c] = "loop"]
       ELSE /\ call_pc' = [call_pc EXCEPT ![c] = "stats"]
            /\ UNCHANGED file_idx

\* import_parquet up to the try: the ledger check and the lock attempt, on the
\* call's own session.
BeginFile(c) ==
  /\ call_pc[c] = "loop"
  /\ LET n == file_name(file_idx[c])
         k == hashtext(n)
     IN IF is_file_imported(import_log, n)
          THEN NextFile(c, FALSE) /\ UNCHANGED session_locks
          ELSE IF session_locks[k] \subseteq {call_conn[c]}
                 THEN /\ session_locks' = [session_locks EXCEPT ![k] = @ \cup {call_conn[c]}]
                      /\ call_pc' = [call_pc EXCEPT ![c] = "file"]
                      /\ UNCHANGED << file_idx, imported >>
                 ELSE NextFile(c, FALSE) /\ UNCHANGED session_locks
  /\ UNCHANGED << args, call_conn, connections, connects, response, table, import_log,
                  faults >>
  /\ KeepImporters

\* import_parquet from the try to the end: the batches are loaded and committed,
\* the ledger entry is inserted (a duplicate key makes the call return False), the
\* lock is released.  A dry run writes nothing and returns True.
FinishFile(c) ==
  /\ call_pc[c] = "file"
  /\ LET i == file_idx[c]
         n == file_name(i)
     IN /\ IF args[c].dry_run
             THEN /\ UNCHANGED << table, import_log >>
                  /\ NextFile(c, TRUE)
             ELSE /\ table' = TableAfterCommit(table, i, 1, NumRows(i))
                  /\ IF unique_violation(import_log, n)
                       THEN UNCHANGED import_log /\ NextFile(c, FALSE)
                       ELSE /\ import_log' = import_log \cup
                                 { [file_name |-> n, rows_imported |-> NumRows(i)] }
                            /\ NextFile(c, TRUE)
        /\ session_locks' = [session_locks EXCEPT ![hashtext(n)] = @ \ {call_conn[c]}]
  /\ UNCHANGED << args, call_conn, connections, connects, response, faults >>
  /\ KeepImporters

\* import_all_parquet_files or get_statistics raises (the connection is lost):
\* the finally of run_import closes the importer and the exception goes on.
RunImportRaises(c) ==
  /\ call_pc[c] \in {"loop", "file", "stats"}
  /\ faults < MaxFaults
  /\ faults' = faults + 1
  /\ call_pc' = [call_pc EXCEPT ![c] = "raised"]
  /\ connections' = close(connections, call_conn[c])
  /\ session_locks' = SessionLocksAfterEnd(session_locks, call_conn[c])
  /\ UNCHANGED << args, call_conn, connects, file_idx, imported, response, table,
                  import_log >>
  /\ KeepImporters

\* stats = importer.get_statistics(); return {...}; finally: importer.close()
GetStatistics(c) ==
  /\ call_pc[c] = "stats"
  /\ response' = [response EXCEPT ![c] =
                    [imported_files |-> imported[c],
                     total_trips |-> total_trips(table),
                     data_dir |-> PathStr(EffectiveDir(args[c].data_dir))]]
  /\ call_pc' = [call_pc EXCEPT ![c] = "returned"]
  /\ connections' = close(connections, call_conn[c])
  /\ session_locks' = SessionLocksAfterEnd(session_locks, call_conn[c])
  /\ UNCHANGED << args, call_conn, connects, file_idx, imported, table, import_log,
                  faults >>
  /\ KeepImporters

NextRunImport ==
  \E c \in Calls :
    \/ CallRunImport(c)
    \/ CollectGarbage(c)
    \/ BeginFile(c)
    \/ FinishFile(c)
    \/ RunImportRaises(c)
    \/ GetStatistics(c)

\* No importer process of the command line is running; the API calls act.
InitRunImport ==
  /\ dry_run = [p \in Procs |-> FALSE]
  /\ batch_size = [p \in Procs |-> MaxBatchRows]
  /\ InitState
  /\ hash_of = DistinctHash /\ WholeTree
  /\ NoBatch /\ NoCalls /\ NoPage /\ NoTools

SpecRunImport == InitRunImport /\ [][NextRunImport]_vars

\* The call is between the construction of its importer and its exit.
InProgress(c) == call_pc[c] \in {"loop", "file", "stats"}

\* C26: run_import returns the count of files imported, the store statistics and
\* the data directory echoed back; on every exit path (return or exception) the
\* connection that the call's importer opened is closed; and two calls in progress
\* have different connections and never hold the lock of one file name together.
C26_RunImportClosesAndIsolates ==
  /\ \A c \in Calls :
       /\ call_pc[c] = "returned" =>
            /\ response[c].imported_files = imported[c]
            /\ response[c].total_trips \in 0 .. total_trips(table)
            /\ response[c].data_dir = PathStr(EffectiveDir(args[c].data_dir))
            /\ args[c].data_dir # NoneDir =>
                 response[c].data_dir = PathStr(args[c].data_dir)
       /\ call_pc[c] \in {"returned", "raised"} => call_conn[c] \notin connections
  /\ \A c1, c2 \in Calls :
       (c1 # c2 /\ InProgress(c1) /\ InProgress(c2)) =>
         /\ call_conn[c1] # call_conn[c2]
         /\ ~(/\ call_pc[c1] = "file" /\ call_pc[c2] = "file"
              /\ file_name(file_idx[c1]) = file_name(file_idx[c2]))

\* ------------------------------ list_imports (api/services/import_log_service.py)

\* Largest limit and offset, and latest import date, of the modelled queries.
MaxPage == 3
MaxDate == 2

\* File names of ledger entries (file_name is the primary key).
LedgerNames == {"a.parquet", "b.parquet", "c.parquet"}

\* The ledgers of the modelled queries: any set of entries with pairwise different
\* file names; two entries may have the same import date.
Ledgers ==
  { { [file_name |-> n, import_date |-> d[n], rows_imported |-> 1] : n \in N } :
      N \in SUBSET LedgerNames, d \in [LedgerNames -> 1 .. MaxDate] }

\* Mutant: order_by(ImportLog.import_date), oldest first.
Before_asc(a, b) == a.import_date <= b.import_date

\* order_by(ImportLog.import_date.desc()): a may come before b in the result.
Before(a, b) == a.import_date >= b.import_date

\* The orders in which the store may return the rows under the ORDER BY: every
\* arrangement of the rows that respects it (rows with equal keys come in any order).
Ordered(rows) ==
  { s \in [1 .. Cardinality(rows) -> rows] :
      /\ \A i, j \in DOMAIN s : i # j => s[i] # s[j]
      /\ \A i, j \in DOMAIN s : i < j => Before(s[i], s[j]) }

Min(a, b) == IF a <= b THEN a ELSE b

\* .offset(offset).limit(limit)
OffsetLimit(s, offset, limit) == SubSeq(s, offset + 1, Min(Len(s), offset + limit))

\* list_imports(session, limit, offset): session.exec(stmt).all()
ListImports ==
  /\ ~page.done
  /\ \E s \in Ordered(ledger) :
       page' = [done |-> TRUE,
                rows |-> OffsetLimit(s, page_args.offset, page_args.limit)]
  /\ UNCHANGED << ledger, page_args, runner_vars, loader_vars, importer_vars,
                  tool_vars >>

\* A ledger and a query of any modelled shape.
InitListImports ==
  /\ dry_run = [p \in Procs |-> FALSE]
  /\ batch_size = [p \in Procs |-> MaxBatchRows]
  /\ InitState
  /\ hash_of = DistinctHash /\ WholeTree
  /\ NoBatch /\ NoCalls /\ NoTools
  /\ ledger \in Ledgers
  /\ page_args \in [limit : 0 .. MaxPage, offset : 0 .. MaxPage]
  /\ page = NoRows

SpecListImports == InitListImports /\ [][ListImports]_vars

\* Entries of the ledger that are newer than e / at least as new as e.
NewerThan(e) == { x \in ledger : x.import_date > e.import_date }
NotOlderThan(e) == { x \in ledger : x.import_date >= e.import_date }

\* C27: list_imports(limit, offset) is a pure read: what it returns is ledger
\* entries, each once, newest first, holding min(limit, entries left after the
\* first `offset`) entries, the j-th of which has rank offset + j by import date;
\* and the call changes neither the ledger nor the trip table.
C27_ListImportsPaging ==
  /\ [](page.done =>
          LET r == page.rows
              left == Cardinality(ledger) - page_args.offset
          IN /\ \A j \in DOMAIN r : r[j] \in ledger
             /\ \A i, j \in DOMAIN r : i # j => r[i] # r[j]
             /\ \A i, j \in DOMAIN r : i < j => r[i].import_date >= r[j].import_date
             /\ Len(r) <= page_args.limit
             /\ Len(r) = IF left < 0 THEN 0 ELSE Min(page_args.limit, left)
             /\ \A j \in DOMAIN r :
                  /\ Cardinality(NewerThan(r[j])) < page_args.offset + j
                  /\ page_args.offset + j <= Cardinality(NotOlderThan(r[j])))
  /\ [][ledger' = ledger /\ table' = table /\ import_log' = import_log]_vars

\* A page of two entries with different dates taken after skipping one of three.
C27_Witness ==
  /\ page.done
  /\ Cardinality(ledger) = 3
  /\ page_args.offset = 1 /\ page_args.limit = 2
  /\ Len(page.rows) = 2
  /\ page.rows[1].import_date > page.rows[2].import_date

\* How an import_parquet call that failed inside its try has gone.
FailureOutcomes == {"ReadFailed", "LoadFailed", "CommitFailed", "LedgerFailed"}

\* C28: for a non-dry run the count of import_all_parquet_files equals the number
\* of ledger entries the run has inserted (one more being pending while a True is
\* about to be returned); import_parquet returns True only after its ledger insert
\* has committed, and returns False on AlreadyImported, on LockDenied and on every
\* failure.
C28_CountEqualsLedgerInserts ==
  \A p \in Procs : ~dry_run[p] =>
    /\ pc[p] \in ActivePcs \cup {"done"} =>
         log_writes[p] = imported_count[p] +
                           (IF pc[p] = "unlock" /\ result[p] = "True" THEN 1 ELSE 0)
    /\ result[p] = "True" => outcome[p] = "Imported"
    /\ outcome[p] \in {"AlreadyImported", "LockDenied"} => result[p] = "False"
    /\ (pc[p] = "unlock" /\ outcome[p] \in FailureOutcomes) => result[p] = "False"

\* ------------------------------------ concurrent runs without crash or failure

\* A tree whose files have pairwise distinct base names.
DistinctNames == {1, 3}

InitFair ==
  /\ InitState
  /\ hash_of = DistinctHash
  /\ discovered = DistinctNames
  /\ NoBatch /\ NoCalls /\ NoPage /\ NoTools

\* The steps of a process whose calls on the store and reads of the files succeed
\* (a duplicate ledger key still sends the call through its except branch).
StepOk(p) ==
  \/ Start(p)
  \/ IsFileImported(p)
  \/ TryLockFile(p)
  \/ OpenParquetFile(p)
  \/ NextBatch(p)
  \/ CommitBatch(p)
  \/ LedgerInsert(p)
  \/ Rollback(p)
  \/ UnlockFile(p)

NextOk == \E p \in Procs : StepOk(p)

\* Every process keeps running: the store answers each of its calls.
SpecFair == InitFair /\ [][NextOk]_vars /\ \A p \in Procs : WF_vars(StepOk(p))

\* No run is in progress, and at least one was started.
AllTerminated == runs > 0 /\ \A p \in Procs : pc[p] \notin ActivePcs

\* The ledger holds exactly one entry for every discovered file.
OneEntryPerFile ==
  \A i \in discovered :
    Cardinality({ e \in import_log : e.file_name = file_name(i) }) = 1

\* C29 as stated: for processes running import_all_parquet_files concurrently over
\* files with distinct base names, without crash or failure, every run terminates,
\* and once all have terminated (a real run among them) the ledger holds exactly
\* one entry for every discovered file.
C29_TerminatesLedgerComplete ==
  /\ \A p \in Procs : (pc[p] \in ActivePcs) ~> (pc[p] = "done")
  /\ []((AllTerminated /\ \E p \in Procs : pc[p] = "done" /\ ~dry_run[p]) =>
          OneEntryPerFile)

\* C29 amended: the same, for processes none of which is a dry run.
C29_RealRunsTerminateLedgerComplete ==
  /\ \A p \in Procs : (pc[p] \in ActivePcs) ~> (pc[p] = "done")
  /\ []((AllTerminated /\ \A p \in Procs : ~dry_run[p]) => OneEntryPerFile)

\* Two real runs have ended, one of them having skipped its last file through
\* LockDenied, and the ledger is complete.
C29_Witness ==
  /\ \A p \in Procs : pc[p] = "done" /\ ~dry_run[p]
  /\ \E p \in Procs : outcome[p] = "LockDenied"
  /\ OneEntryPerFile

C31_DryRunHoldsTheLock ==
  /\ [](\A p \in Procs : dry_run[p] =>
          /\ Holding(p) => HoldersOf(advisory_locks, hashtext(file_name(idx[p]))) = {p}
          /\ pc[p] \notin LockedPcs => \A k \in Keys : advisory_locks[k][p] = 0)
  /\ [][\A p \in Procs : \A q \in Procs \ {p} :
          (/\ dry_run[p] /\ Holding(p)
           /\ ~dry_run[q] /\ TryLockFile(q)
           /\ file_name(idx[q]) = file_name(idx[p])) =>
            /\ outcome'[q] = "LockDenied" /\ result'[q] = "False"
            /\ imported_count'[q] = imported_count[q]
            /\ import_log' = import_log /\ table' = table
            /\ (idx'[q] > idx[q] \/ pc'[q] = "done")]_vars
  /\ [][\A p \in Procs :
          (dry_run[p] /\ conn[p] /\ IsFileImported(p)
             /\ has_key(import_log, file_name(idx[p]))) =>
            (outcome'[p] = "AlreadyImported" /\ advisory_locks' = advisory_locks)]_vars

\* A dry run is at the end of its try on the first file, its one batch read and
\* the lock still held, while a real import of the same file by the other process
\* has been denied the lock and is at the next file; the ledger has no entry.
C31_Witness ==
  \E p \in Procs : \E q \in Procs \ {p} :
    /\ dry_run[p] /\ ~dry_run[q]
    /\ pc[p] = "unlock" /\ idx[p] = 1 /\ batch_no[p] = 1 /\ conn[p]
    /\ advisory_locks[hashtext(file_name(1))][p] > 0
    /\ pc[q] = "check" /\ idx[q] = 2 /\ outcome[q] = "LockDenied"
    /\ imported_count[q] = 0
    /\ import_log = {}

\* ------------------------- PostgresImporter (import_to_postgres.py), lock-free

\* What a run of PostgresImporter leaves as it is.
KeepParquetImporter ==
  UNCHANGED << conn, dry_run, batch_size, imported_count, total_rows, batch_len,
               batch_no, commits, txn, result, advisory_locks, outcome, writes,
               log_writes, base, seen_holder, all_logged, hash_of, discovered,
               loader_vars, api_vars, downloader_vars, transfer_vars >>

\* Mutant: the ledger entry is written as soon as one batch is in.
AllBatchesInserted_first(i, pos) == pos > 0

\* for df in self.iter_parquet_batches(...): the loop has ended.
AllBatchesInserted(i, pos) == pos >= NumRows(i)

\* log_import: INSERT INTO import_log ... ON CONFLICT (file_name) DO NOTHING
log_import(log, name, rows) ==
  IF has_key(log, name) THEN log
  ELSE log \cup { [file_name |-> name, rows_imported |-> rows] }

\* import_all_parquet_files: files = sorted(data_dir.rglob("*.parquet"));
\* imported_files = 0; the loop starts.
PostgresImporter_Start(p) ==
  /\ pc[p] \in {"idle", "pi_done", "pi_raised"}
  /\ runs < MaxRuns
  /\ runs' = runs + 1
  /\ idx' = [idx EXCEPT ![p] = FirstFile(discovered)]
  /\ imported_files' = [imported_files EXCEPT ![p] = 0]
  /\ imported_rows' = [imported_rows EXCEPT ![p] = 0]
  /\ read_pos' = [read_pos EXCEPT ![p] = 0]
  /\ pc' = [pc EXCEPT ![p] = "pi_check"]
  /\ UNCHANGED << table, import_log, faults >>
  /\ KeepParquetImporter

\* import_parquet returned rows: if rows > 0: imported_files += 1; the next file,
\* or return imported_files.
PostgresImporter_Return(p, rows) ==
  /\ imported_files' = [imported_files EXCEPT ![p] = IF rows > 0 THEN @ + 1 ELSE @]
  /\ IF ~IsLastFile(discovered, idx[p])
       THEN /\ idx' = [idx EXCEPT ![p] = FileAfter(discovered, @)]
            /\ pc' = [pc EXCEPT ![p] = "pi_check"]
       ELSE /\ pc' = [pc EXCEPT ![p] = "pi_done"]
            /\ UNCHANGED idx

\* import_parquet: if self.is_file_imported(fname): return 0; imported_rows = 0
PostgresImporter_IsFileImported(p) ==
  /\ pc[p] = "pi_check"
  /\ IF is_file_imported(import_log, file_name(idx[p]))
       THEN /\ PostgresImporter_Return(p, 0)
            /\ UNCHANGED << imported_rows, read_pos >>
       ELSE /\ pc' = [pc EXCEPT ![p] = "pi_batch"]
            /\ imported_rows' = [imported_rows EXCEPT ![p] = 0]
            /\ read_pos' = [read_pos EXCEPT ![p] = 0]
            /\ UNCHANGED << idx, imported_files >>
  /\ UNCHANGED << runs, table, import_log, faults >>
  /\ KeepParquetImporter

\* One turn of the batch loop: df.to_sql("yellow_taxi_trips", con=engine,
\* if_exists="append", ...) in its own transaction; imported_rows += len(df)
PostgresImporter_ToSql(p) ==
  /\ pc[p] = "pi_batch"
  /\ read_pos[p] < NumRows(idx[p])
  /\ LET n == NextBatchLen(idx[p], read_pos[p], batch_size[p])
     IN /\ table' = TableAfterCommit(table, idx[p], read_pos[p] + 1, read_pos[p] + n)
        /\ read_pos' = [read_pos EXCEPT ![p] = @ + n]
        /\ imported_rows' = [imported_rows EXCEPT ![p] = @ + n]
  /\ UNCHANGED << pc, idx, runs, imported_files, import_log, faults >>
  /\ KeepParquetImporter

\* df.to_sql raises: its transaction is rolled back; nothing in import_parquet or
\* import_all_parquet_files catches the exception.
PostgresImporter_ToSqlRaises(p) ==
  /\ pc[p] = "pi_batch"
  /\ read_pos[p] < NumRows(idx[p])
  /\ faults < MaxFaults
  /\ faults' = faults + 1
  /\ pc' = [pc EXCEPT ![p] = "pi_raised"]
  /\ UNCHANGED << idx, runs, read_pos, imported_rows, imported_files, table,
                  import_log >>
  /\ KeepParquetImporter

\* After the loop: self.log_import(fname, imported_rows); return imported_rows
PostgresImporter_LogImport(p) ==
  /\ pc[p] = "pi_batch"
  /\ AllBatchesInserted(idx[p], read_pos[p])
  /\ import_log' = log_import(import_log, file_name(idx[p]), imported_rows[p])
  /\ PostgresImporter_Return(p, imported_rows[p])
  /\ UNCHANGED << runs, read_pos, imported_rows, table, faults >>
  /\ KeepParquetImporter

PostgresImporter_Step(p) ==
  \/ PostgresImporter_Start(p)
  \/ PostgresImporter_IsFileImported(p)
  \/ PostgresImporter_ToSql(p)
  \/ PostgresImporter_ToSqlRaises(p)
  \/ PostgresImporter_LogImport(p)

PostgresImporter_Next == \E p \in Procs : PostgresImporter_Step(p)

InitLockFree ==
  /\ dry_run = [p \in Procs |-> FALSE]
  /\ InitState
  /\ hash_of = DistinctHash /\ WholeTree
  /\ NoBatch /\ NoCalls /\ NoPage /\ NoTools

SpecLockFree == InitLockFree /\ [][PostgresImporter_Next]_vars

\* C32: in PostgresImporter the ledger entry of a file is written only after every
\* batch of the file has been inserted (every ledger entry is for a file all of
\* whose rows are in the table, with its row count), by an insert that leaves an
\* existing entry as it is; when a batch insert raises, the step writes no ledger
\* entry and leaves the batches inserted so far, and the run is over: no file is
\* attempted after it.
C32_LockFreeLedgerAfterBatches ==
  /\ [](\A e \in import_log :
          \E i \in FileIds :
            /\ file_name(i) = e.file_name /\ e.rows_imported = NumRows(i)
            /\ \A r \in RowIds(i) : table[i][r] >= 1)
  /\ [](\A e1, e2 \in import_log : e1.file_name = e2.file_name => e1 = e2)
  /\ [][/\ import_log \subseteq import_log'
        /\ \A p \in Procs :
             /\ (pc[p] = "pi_batch" /\ pc'[p] = "pi_raised") =>
                  (import_log' = import_log /\ table' = table)
             /\ pc[p] = "pi_raised" =>
                  \/ pc'[p] = "pi_raised" /\ idx'[p] = idx[p]
                  \/ runs' = runs + 1]_vars

\* The second batch insert of the first file raised: the run has ended there with
\* the first batch in the table, no ledger entry, and two files never attempted.
C32_Witness ==
  \E p \in Procs :
    /\ pc[p] = "pi_raised" /\ idx[p] = 1 /\ read_pos[p] = 2
    /\ table[1][1] = 1 /\ table[1][2] = 1 /\ table[1][3] = 0
    /\ import_log = {}
    /\ \A i \in FileIds \ {1} : \A r \in RowIds(i) : table[i][r] = 0

\* ------------------------------------ NYCTaxiDataDownloader (download_data.py)

\* Months that download_all_available goes through, and iter_content chunks in
\* the body of a remote file.
MaxMonth == 2
MaxChunks == 2

Absent == -1

\* get_file_path(month): DATA_DIR / "yellow_tripdata_{YEAR}-{month:02d}.parquet",
\* as the stem followed by its suffixes.
get_file_path(m) == << m, "parquet" >>

\* Mutant: the download is written at the final path.
with_suffix_none(path, suffix) == path

\* Path.with_suffix(suffix): the last suffix of the name is replaced.
with_suffix(path, suffix) == SubSeq(path, 1, Len(path) - 1) \o suffix

\* tmp_path = local_path.with_suffix(".parquet.part")
tmp_path(m) == with_suffix(get_file_path(m), << "parquet", "part" >>)

\* The paths of the download directory.
Paths == UNION { {get_file_path(m), get_file_path(m) \o << "part" >>} : m \in 1..MaxMonth }

\* file_exists(month): get_file_path(month).is_file()
file_exists(dir, m) == dir[get_file_path(m)] # Absent

\* data_dir.glob("**/*.parquet"): the name ends in ".parquet"
glob_parquet(path) == path[Len(path)] = "parquet"

\* tmp_path.rename(local_path)
rename(dir, src, dst) ==
  [q \in DOMAIN dir |-> IF q = dst THEN dir[src] ELSE IF q = src THEN Absent ELSE dir[q]]

\* if tmp_path.exists(): tmp_path.unlink()
unlink(dir, path) == [dir EXCEPT ![path] = Absent]

\* What the downloader leaves as it is.
KeepDownloader ==
  UNCHANGED << pc, conn, dry_run, batch_size, idx, imported_count, total_rows, read_pos,
               batch_len, batch_no, commits, txn, result, table, import_log,
               advisory_locks, outcome, writes, log_writes, base, seen_holder,
               all_logged, hash_of, discovered, loader_vars, api_vars, imported_rows,
               imported_files, transfer_vars >>

\* download_all_available: for m in range(1, last_month + 1)
Download_Start ==
  /\ dl_pc \in {"idle", "done", "killed"}
  /\ runs < MaxRuns
  /\ runs' = runs + 1
  /\ \E c \in BOOLEAN : CHECK_EXISTS' = c
  /\ month' = 1
  /\ downloaded' = 0
  /\ dl_pc' = "file_exists"
  /\ UNCHANGED << fs, returned, requests_sent, parquet_glob, faults >>
  /\ KeepDownloader

\* download_month returned: the next month, or the end of the loop.
Download_Return(value) ==
  /\ returned' = value
  /\ IF month < MaxMonth
       THEN month' = month + 1 /\ dl_pc' = "file_exists"
       ELSE dl_pc' = "done" /\ UNCHANGED month

\* if self.file_exists(month): return True
Download_FileExists ==
  /\ dl_pc = "file_exists"
  /\ IF file_exists(fs, month)
       THEN Download_Return("True")
       ELSE /\ dl_pc' = IF CHECK_EXISTS THEN "head" ELSE "get"
            /\ UNCHANGED << month, returned >>
  /\ UNCHANGED << fs, CHECK_EXISTS, downloaded, requests_sent, parquet_glob, runs, faults >>
  /\ KeepDownloader

\* if self.CHECK_EXISTS and not self.url_exists(month): return False
\* (url_exists: a HEAD request; any answer but 200, or a RequestException, is False)
Download_UrlExists ==
  /\ dl_pc = "head"
  /\ requests_sent' = requests_sent + 1
  /\ \E ok \in BOOLEAN :
       IF ok THEN dl_pc' = "get" /\ UNCHANGED << month, returned >>
             ELSE Download_Return("False")
  /\ UNCHANGED << fs, CHECK_EXISTS, downloaded, parquet_glob, runs, faults >>
  /\ KeepDownloader

\* requests.get(url, stream=True); r.raise_for_status(); open(tmp_path, "wb")
Download_Get ==
  /\ dl_pc = "get"
  /\ requests_sent' = requests_sent + 1
  /\ fs' = [fs EXCEPT ![tmp_path(month)] = 0]
  /\ downloaded' = 0
  /\ dl_pc' = "body"
  /\ UNCHANGED << CHECK_EXISTS, month, returned, parquet_glob, runs, faults >>
  /\ KeepDownloader

\* except RequestException: if tmp_path.exists(): tmp_path.unlink(); return False
Download_Except ==
  /\ fs' = unlink(fs, tmp_path(month))
  /\ Download_Return("False")
  /\ UNCHANGED << CHECK_EXISTS, downloaded, parquet_glob, runs, faults >>
  /\ KeepDownloader

\* requests.get or raise_for_status raises a RequestException.
Download_GetRaises ==
  /\ dl_pc = "get"
  /\ requests_sent' = requests_sent + 1
  /\ Download_Except

\* for chunk in r.iter_content(chunk_size): f.write(chunk); downloaded += len(chunk)
Download_WriteChunk ==
  /\ dl_pc = "body"
  /\ downloaded < MaxChunks
  /\ fs' = [fs EXCEPT ![tmp_path(month)] = @ + 1]
  /\ downloaded' = downloaded + 1
  /\ UNCHANGED << CHECK_EXISTS, dl_pc, month, returned, requests_sent, parquet_glob,
                  runs, faults >>
  /\ KeepDownloader

\* iter_content raises a RequestException before the end of the body.
Download_BodyRaises ==
  /\ dl_pc = "body"
  /\ downloaded < MaxChunks
  /\ UNCHANGED requests_sent
  /\ Download_Except

\* The body has ended: tmp_path.rename(local_path); return True
Download_Rename ==
  /\ dl_pc = "body"
  /\ downloaded = MaxChunks
  /\ fs' = rename(fs, tmp_path(month), get_file_path(month))
  /\ Download_Return("True")
  /\ UNCHANGED << CHECK_EXISTS, downloaded, requests_sent, parquet_glob, runs, faults >>
  /\ KeepDownloader

\* The process ends on something that is not a RequestException (an interrupt, a
\* kill): nothing is cleaned up.
Download_Killed ==
  /\ dl_pc \in {"file_exists", "head", "get", "body"}
  /\ faults < MaxFaults
  /\ faults' = faults + 1
  /\ dl_pc' = "killed"
  /\ UNCHANGED << fs, CHECK_EXISTS, month, downloaded, returned, requests_sent,
                  parquet_glob, runs >>
  /\ KeepDownloader

\* An importer, at any moment: parquet_files = sorted(data_dir.glob(pattern))
Importer_Glob ==
  /\ parquet_glob' =
       [scanned |-> {q \in DOMAIN fs : fs[q] # Absent},
        found |-> {[path |-> q, size |-> fs[q]] :
                     q \in {x \in DOMAIN fs : fs[x] # Absent /\ glob_parquet(x)}}]
  /\ UNCHANGED << fs, CHECK_EXISTS, dl_pc, month, downloaded, returned, requests_sent,
                  runs, faults >>
  /\ KeepDownloader

NextDownload ==
  \/ Download_Start
  \/ Download_FileExists
  \/ Download_UrlExists
  \/ Download_Get
  \/ Download_GetRaises
  \/ Download_WriteChunk
  \/ Download_BodyRaises
  \/ Download_Rename
  \/ Download_Killed
  \/ Importer_Glob

\* NYCTaxiDataDownloader.__init__: DATA_DIR.mkdir(parents=True, exist_ok=True)
InitDownload ==
  /\ dry_run = [p \in Procs |-> FALSE]
  /\ batch_size = [p \in Procs |-> MaxBatchRows]
  /\ InitState
  /\ hash_of = DistinctHash /\ WholeTree
  /\ NoBatch /\ NoCalls /\ NoPage /\ NoParquetImporter /\ NoTransfer
  /\ fs = [q \in Paths |-> Absent]
  /\ CHECK_EXISTS = FALSE /\ dl_pc = "idle" /\ month = 0
  /\ downloaded = 0 /\ returned = "none" /\ requests_sent = 0
  /\ parquet_glob = [scanned |-> {}, found |-> {}]

SpecDownload == InitDownload /\ [][NextDownload]_vars

\* The file at the final path of month m holds the whole body.
Complete(dir, m) == dir[get_file_path(m)] = MaxChunks

\* C33: download_month writes the body to the ".parquet.part" path and renames it
\* to the final path only once the whole body is written: a file at a final path
\* always holds the whole body; a call that ends on a request failure leaves no
\* temporary file and returns False; a month whose final file exists is skipped
\* with True and without a request; and what the importer's "*.parquet" glob finds
\* is always a complete file at a final path.
C33_FinalPathIsComplete ==
  /\ [](/\ \A m \in 1..MaxMonth : file_exists(fs, m) => Complete(fs, m)
        /\ \A m \in 1..MaxMonth : tmp_path(m) # get_file_path(m) /\ ~glob_parquet(tmp_path(m))
        /\ \A e \in parquet_glob.found :
             \E m \in 1..MaxMonth : e.path = get_file_path(m) /\ e.size = MaxChunks)
  /\ [][/\ \A m \in 1..MaxMonth :
             (~file_exists(fs, m) /\ file_exists(fs', m)) =>
               /\ dl_pc = "body" /\ month = m /\ downloaded = MaxChunks
               /\ fs[tmp_path(m)] = MaxChunks /\ fs'[tmp_path(m)] = Absent
        /\ (dl_pc \in {"get", "body"} /\ dl_pc' \in {"file_exists", "done"}
              /\ ~file_exists(fs', month)) =>
             (returned' = "False" /\ fs'[tmp_path(month)] = Absent)
        /\ (dl_pc = "file_exists" /\ file_exists(fs, month) /\ dl_pc' # "killed"
              /\ parquet_glob' = parquet_glob) =>
             /\ requests_sent' = requests_sent /\ fs' = fs /\ returned' = "True"
             /\ dl_pc' \in {"file_exists", "done"}]_vars

\* The importer globbed while the second month was half written: it scanned the
\* first month's file and the temporary file and found only the first, complete.
C33_Witness ==
  /\ dl_pc = "body" /\ month = 2 /\ downloaded = 1
  /\ fs[tmp_path(2)] = 1 /\ fs[get_file_path(2)] = Absent
  /\ parquet_glob.scanned = {get_file_path(1), tmp_path(2)}
  /\ parquet_glob.found = {[path |-> get_file_path(1), size |-> MaxChunks]}

\* ------------------------------------------- DataConnector (data_connector.py)

\* Most rows of yellow_taxi_trips that pass the WHERE clause, and largest chunksize.
MaxValidRows == 3
MaxChunkSize == 2

\* What the transfer leaves as it is.
KeepTransfer ==
  UNCHANGED << pc, conn, dry_run, batch_size, idx, imported_count, total_rows, read_pos,
               batch_len, batch_no, commits, txn, result, table, import_log,
               advisory_locks, outcome, writes, log_writes, base, seen_holder,
               all_logged, hash_of, discovered, loader_vars, api_vars, imported_rows,
               imported_files, downloader_vars >>

\* SELECT * ... ORDER BY tpep_pickup_datetime LIMIT {chunksize} OFFSET {offset}
LimitOffset(n, limit, off) == { r \in 1..n : off < r /\ r <= off + limit }

\* df.to_dict("records") of chunk k, each record with the _id that insert_many
\* gives it: one document per row, new at every insert.
records(rows, k) == { [row |-> r, chunk |-> k] : r \in rows }

\* The __main__ loop starts: the COUNT(*) query, offset = 0, chunk_index = 1
Transfer_Start ==
  /\ tr_pc \in {"idle", "done"}
  /\ runs < MaxRuns
  /\ runs' = runs + 1
  /\ tr_offset' = 0
  /\ chunk_index' = 1
  /\ yielded' = {}
  /\ inserted' = 0
  /\ df_chunk' = {}
  /\ tr_pc' = "loop"
  /\ UNCHANGED << pg_rows, chunksize, cleaned_trips, faults >>
  /\ KeepTransfer

\* while offset < total_rows: df_chunk = pd.read_sql(query); yield df_chunk
Transfer_ReadChunk ==
  /\ tr_pc = "loop"
  /\ LET rows == LimitOffset(pg_rows, chunksize, tr_offset)
     IN IF tr_offset < pg_rows /\ rows # {}
          THEN /\ df_chunk' = rows
               /\ yielded' = yielded \cup records(rows, chunk_index)
               /\ tr_pc' = "save"
          ELSE /\ tr_pc' = "done"
               /\ UNCHANGED << df_chunk, yielded >>
  /\ UNCHANGED << pg_rows, chunksize, tr_offset, chunk_index, cleaned_trips, inserted,
                  runs, faults >>
  /\ KeepTransfer

\* pd.read_sql raises: except Exception: return, the generator ends.
Transfer_ReadRaises ==
  /\ tr_pc = "loop"
  /\ tr_offset < pg_rows
  /\ faults < MaxFaults
  /\ faults' = faults + 1
  /\ tr_pc' = "done"
  /\ UNCHANGED << pg_rows, chunksize, tr_offset, chunk_index, df_chunk, cleaned_trips,
                  yielded, inserted, runs >>
  /\ KeepTransfer

\* if existing_count > 0: self.cleaned_trips.delete_many({})
delete_many_all(coll) == {}

\* save_to_mongodb(batch): the old documents are deleted, the records inserted and
\* counted; then the generator goes on: offset += chunksize; chunk_index += 1
Transfer_SaveToMongodb ==
  /\ tr_pc = "save"
  /\ cleaned_trips' = delete_many_all(cleaned_trips) \cup records(df_chunk, chunk_index)
  /\ inserted' = inserted + Cardinality(records(df_chunk, chunk_index))
  /\ tr_offset' = tr_offset + chunksize
  /\ chunk_index' = chunk_index + 1
  /\ tr_pc' = "loop"
  /\ UNCHANGED << pg_rows, chunksize, df_chunk, yielded, runs, faults >>
  /\ KeepTransfer

\* insert_many(records, ordered=False) raises after inserting some of the records:
\* except Exception: return 0
Transfer_InsertRaises ==
  /\ tr_pc = "save"
  /\ faults < MaxFaults
  /\ faults' = faults + 1
  /\ \E done \in SUBSET records(df_chunk, chunk_index) :
       /\ done # records(df_chunk, chunk_index)
       /\ cleaned_trips' = delete_many_all(cleaned_trips) \cup done
  /\ tr_offset' = tr_offset + chunksize
  /\ chunk_index' = chunk_index + 1
  /\ tr_pc' = "loop"
  /\ UNCHANGED << pg_rows, chunksize, df_chunk, yielded, inserted, runs >>
  /\ KeepTransfer

NextTransfer ==
  \/ Transfer_Start
  \/ Transfer_ReadChunk
  \/ Transfer_ReadRaises
  \/ Transfer_SaveToMongodb
  \/ Transfer_InsertRaises

\* DataConnector.__init__: both connections are up; the collection is empty before
\* the first transfer.
InitTransfer ==
  /\ dry_run = [p \in Procs |-> FALSE]
  /\ batch_size = [p \in Procs |-> MaxBatchRows]
  /\ InitState
  /\ hash_of = DistinctHash /\ WholeTree
  /\ NoBatch /\ NoCalls /\ NoPage /\ NoParquetImporter /\ NoDownload
  /\ pg_rows \in 0..MaxValidRows
  /\ chunksize \in 1..MaxChunkSize
  /\ tr_offset = 0 /\ chunk_index = 1 /\ df_chunk = {}
  /\ cleaned_trips = {} /\ yielded = {} /\ inserted = 0 /\ tr_pc = "idle"

SpecTransfer == InitTransfer /\ [][NextTransfer]_vars

\* C34: after the last chunk of a transfer in which nothing failed, the collection
\* contains the documents of every chunk yielded, and the sum of the counts
\* returned by save_to_mongodb is the number of documents in the collection.
C34_CollectionHoldsEveryChunk ==
  (tr_pc = "done" /\ faults = 0) =>
    /\ yielded \subseteq cleaned_trips
    /\ inserted = Cardinality(cleaned_trips)

====
